---- MODULE Spec2Model ----
(***************************************************************************)
(* Model of the quantitative trading engine: the signal generators         *)
(* (Momentum, MeanReversion, StatisticalArbitrage), the backtesting engine *)
(* (BacktestingEngine._backtest_strategy and the thread-pool fan-out of    *)
(* BacktestingEngine.run_all), the risk engine (tail risk, drawdown and    *)
(* factor exposure reports of RiskEngine) and the construction and start   *)
(* of RealTimeDataIngestor by concurrent callers.                          *)
(*                                                                         *)
(* Numbers.  Prices are positive integers; a price cell that holds no      *)
(* value is Missing.  Every derived float is an exact rational             *)
(* <<num, den>> with den > 0 in lowest terms; the missing value (NaN) is   *)
(* <<0, 0>>.  Signals are integers.  Bars are numbered 1..n (pandas        *)
(* position t is bar t+1).                                                 *)
(***************************************************************************)
EXTENDS Integers, Sequences, FiniteSets, TLC

\* ------------------------------------------------------------------ bounds
MaxBars == 5
RunBars == 2
MaxStrategies == 2
MaxWorkers == 2

PairBars == 4

MaxObs == 5
MaxTail == 11
MaxFactorRows == 3

MaxThreads == 2

PriceVals == {1, 2}
BenchVals == {1, 2}

\* ------------------------------------------------------- program constants
initial_capital == 100000

\* ---------------------------------------------------------------- rationals
NaN == <<0, 0>>

IsNaN(r) == r[2] = 0

Abs(x) == IF x < 0 THEN -x ELSE x

RECURSIVE Gcd(_, _)
Gcd(a, b) == IF b = 0 THEN a ELSE Gcd(b, a % b)

Rat(n, d) ==
    IF d = 0 THEN NaN
    ELSE LET g == Gcd(Abs(n), Abs(d))
             s == IF d < 0 THEN -1 ELSE 1
         IN  <<(s * n) \div g, (s * d) \div g>>

RInt(i) == <<i, 1>>

RAdd(a, b) == IF IsNaN(a) \/ IsNaN(b) THEN NaN
              ELSE Rat(a[1] * b[2] + b[1] * a[2], a[2] * b[2])

RSub(a, b) == IF IsNaN(a) \/ IsNaN(b) THEN NaN
              ELSE Rat(a[1] * b[2] - b[1] * a[2], a[2] * b[2])

RMul(a, b) == IF IsNaN(a) \/ IsNaN(b) THEN NaN
              ELSE Rat(a[1] * b[1], a[2] * b[2])

RDiv(a, b) == IF IsNaN(a) \/ IsNaN(b) \/ b[1] = 0 THEN NaN
              ELSE Rat(a[1] * b[2], a[2] * b[1])

\* comparisons with a missing operand are False, as in IEEE / pandas
RLt(a, b) == ~IsNaN(a) /\ ~IsNaN(b) /\ a[1] * b[2] < b[1] * a[2]
RGt(a, b) == RLt(b, a)

RNeg(a) == RSub(RInt(0), a)

\* a price cell as a float
Missing == 0

Cell(c) == IF c = Missing THEN NaN ELSE RInt(c)

Floats(cells) == [t \in DOMAIN cells |-> Cell(cells[t])]

\* ------------------------------------------------------------------ frames
\* A DataFrame: its row count and its columns (name -> sequence of cells).
Frame(n, columns) == [len |-> n, cols |-> columns]

HasCol(df, name) == name \in DOMAIN df.cols

SetCol(df, name, series) ==
    [df EXCEPT !.cols = (name :> series) @@ df.cols]

Rows(df) == 1..df.len

\* a series as an explicit tuple of its cells (the same function, evaluated
\* once instead of at every use)
RECURSIVE Cells(_, _)
Cells(f, n) == IF n = 0 THEN <<>> ELSE Append(Cells(f, n - 1), f[n])

Series(f) == Cells(f, Cardinality(DOMAIN f))

\* pd.Series(0, index=data.index)
FlatSeriesNoIndex(df) == <<0>>

FlatSeries(df) == Series([i \in Rows(df) |-> 0])

\* Series.astype(int) of a boolean series
AsInt(b) == IF b THEN 1 ELSE 0

\* ----------------------------------------------------------- rolling mean
RECURSIVE SumRange(_, _, _)
SumRange(s, lo, hi) == IF lo > hi THEN 0 ELSE s[hi] + SumRange(s, lo, hi - 1)

\* Series.rolling(window=w).mean(): the mean of the w bars ending at t,
\* missing until w bars are available (min_periods defaults to the window)
RollingMeanLookahead(price, w) ==
    Series([t \in DOMAIN price |->
               IF t + w - 1 <= Len(price)
               THEN Rat(SumRange(price, t, t + w - 1), w) ELSE NaN])

RollingMean(price, w) ==
    Series([t \in DOMAIN price |->
               IF t >= w THEN Rat(SumRange(price, t - w + 1, t), w) ELSE NaN])

\* rolling() rejects a negative window with ValueError
RollingRaises(w) == w < 0

\* -------------------------------------------------------------- strategies
MomentumStrategy(w) == [cls |-> "MomentumStrategy", window |-> w]

MeanReversionStrategy(w, th) ==
    [cls |-> "MeanReversionStrategy", window |-> w, threshold |-> th]

StatisticalArbitrageStrategy(lb, entry, exit, hold, mhl) ==
    [cls |-> "StatisticalArbitrageStrategy", lookback_period |-> lb,
     entry_zscore |-> entry, exit_zscore |-> exit, max_position_hold |-> hold,
     min_half_life |-> mhl]

\* __init__ of the three classes stores its arguments and checks none
ConstructorRaises(strategy) == FALSE

\* outcome of a call of generate_signals: it raised, or it returned `signals`;
\* `df` is the frame that was passed in, as the call leaves it
Raised(df) == [raised |-> TRUE, signals |-> <<>>, df |-> df]
Returned(series, df) == [raised |-> FALSE, signals |-> series, df |-> df]

\* MomentumStrategy.generate_signals
Momentum_compareNonStrict(close, mean) ==
    [t \in DOMAIN close |-> ~RLt(RInt(close[t]), mean[t])]

Momentum_compare(close, mean) ==
    [t \in DOMAIN close |-> RGt(RInt(close[t]), mean[t])]

Momentum_generate_signals(self, data) ==
    IF RollingRaises(self.window) THEN Raised(data)
    ELSE LET close == data.cols["close"]
             df == SetCol(data, "rolling_mean", RollingMean(close, self.window))
             signals == Momentum_compare(close, df.cols["rolling_mean"])
             ints == [t \in DOMAIN signals |-> AsInt(signals[t])]
         IN  Returned(Series([t \in DOMAIN ints |->
                                  IF ints[t] = 0 THEN -1 ELSE ints[t]]), df)

\* line 19 of MeanReversionStrategy.generate_signals
MeanReversion_combineSwapped(buy_signal, sell_signal) ==
    Series([t \in DOMAIN buy_signal |-> sell_signal[t] - buy_signal[t]])

MeanReversion_combine(buy_signal, sell_signal) ==
    Series([t \in DOMAIN buy_signal |-> buy_signal[t] - sell_signal[t]])

\* MeanReversionStrategy.generate_signals
MeanReversion_generate_signals(self, data) ==
    IF RollingRaises(self.window) THEN Raised(data)
    ELSE LET price == data.cols["close"]
             rolling_mean == RollingMean(price, self.window)
             lower == [t \in DOMAIN price |->
                          RMul(rolling_mean[t], RSub(RInt(1), self.threshold))]
             upper == [t \in DOMAIN price |->
                          RMul(rolling_mean[t], RAdd(RInt(1), self.threshold))]
             buy_signal == [t \in DOMAIN price |->
                               AsInt(RLt(RInt(price[t]), lower[t]))]
             sell_signal == [t \in DOMAIN price |->
                                AsInt(RGt(RInt(price[t]), upper[t]))]
         IN  Returned(MeanReversion_combine(buy_signal, sell_signal), data)

\* ------------------------------------------- StatisticalArbitrageStrategy
\* The regressions, the spread, the half-life test and the z-score thresholds
\* are computed exactly.  The ADF test of check_cointegration is taken from
\* `lib`, the outcome of statsmodels on this frame:
\*   adf_pass   adfuller returned a p-value below confidence_level (FALSE
\*              also stands for the exception check_cointegration catches)
Min(a, b) == IF a < b THEN a ELSE b

Max(a, b) == IF a > b THEN a ELSE b

RECURSIVE RSum(_, _)
RSum(s, n) == IF n = 0 THEN RInt(0) ELSE RAdd(RSum(s, n - 1), s[n])

RProd(xs, ys) == [t \in DOMAIN xs |-> RMul(xs[t], ys[t])]

HasNaN(s) == \E t \in DOMAIN s : IsNaN(s[t])

\* Series.dropna().values
RECURSIVE DropNa(_)
DropNa(s) ==
    IF s = <<>> THEN <<>>
    ELSE IF IsNaN(Head(s)) THEN DropNa(Tail(s))
    ELSE <<Head(s)>> \o DropNa(Tail(s))

\* LinearRegression().fit(X, y) validates its arrays: no sample, arrays of
\* different lengths or a missing value raise ValueError
FitRaises(xs, ys) ==
    Len(xs) = 0 \/ Len(xs) # Len(ys) \/ HasNaN(xs) \/ HasNaN(ys)

\* least squares with an intercept; a constant regressor gets the
\* minimum-norm solution, slope 0
OlsCoef(n, sx, sy, sxx, sxy) ==
    LET den == RSub(RMul(RInt(n), sxx), RMul(sx, sx))
    IN  IF den[1] = 0 THEN RInt(0)
        ELSE RDiv(RSub(RMul(RInt(n), sxy), RMul(sx, sy)), den)

OlsIntercept(n, sx, sy, coef) == RDiv(RSub(sy, RMul(coef, sx)), RInt(n))

OlsFrom(n, sx, sy, coef) ==
    [coef |-> coef, intercept |-> OlsIntercept(n, sx, sy, coef)]

LinearRegression_fit(xs, ys) ==
    OlsFrom(Len(xs), RSum(xs, Len(xs)), RSum(ys, Len(ys)),
            OlsCoef(Len(xs), RSum(xs, Len(xs)), RSum(ys, Len(ys)),
                    RSum(RProd(xs, xs), Len(xs)), RSum(RProd(xs, ys), Len(xs))))

\* np.median
RECURSIVE InsertSorted(_, _)
InsertSorted(v, x) ==
    IF v = <<>> THEN <<x>>
    ELSE IF RLt(x, Head(v)) THEN <<x>> \o v
    ELSE <<Head(v)>> \o InsertSorted(Tail(v), x)

RECURSIVE SortFloats(_, _)
SortFloats(s, n) ==
    IF n = 0 THEN <<>> ELSE InsertSorted(SortFloats(s, n - 1), s[n])

MedianOfSorted(v) ==
    IF Len(v) % 2 = 1 THEN v[(Len(v) + 1) \div 2]
    ELSE RDiv(RAdd(v[Len(v) \div 2], v[Len(v) \div 2 + 1]), RInt(2))

Median(s) == MedianOfSorted(SortFloats(s, Len(s)))

\* calculate_hedge_ratio.  Pass k of the loop (i = window + k - 1) fits the
\* rows iloc[i-window:i], which are bars k .. k+window-1
HedgeRowsToCurrent(series, window, k) ==
    SubSeq(Floats(series), k + 1, k + window)

HedgeRows(series, window, k) == SubSeq(Floats(series), k, k + window - 1)

HedgeFit(series1, series2, window, k) ==
    LinearRegression_fit(HedgeRows(series2, window, k),
                         HedgeRows(series1, window, k))

HedgeRatioFrom(series1, series2, window, passes) ==
    IF \E k \in 1..passes : FitRaises(HedgeRows(series2, window, k),
                                      HedgeRows(series1, window, k))
    THEN [raised |-> TRUE, hedge_ratio |-> NaN, intercept |-> NaN]
    ELSE [raised |-> FALSE,
          hedge_ratio |-> Median([k \in 1..passes |->
                                     HedgeFit(series1, series2, window, k).coef]),
          intercept |-> HedgeFit(series1, series2, window, passes).intercept]

calculate_hedge_ratio(self, series1, series2) ==
    HedgeRatioFrom(series1, series2,
                   Min(self.lookback_period, Len(series1) - 1),
                   Len(series1) - Min(self.lookback_period, Len(series1) - 1))

\* line 105
Spread(price1, price2, hedge_ratio, intercept) ==
    Series([t \in DOMAIN price1 |->
               RSub(RSub(Cell(price1[t]), RMul(hedge_ratio, Cell(price2[t]))),
                    intercept)])

\* calculate_half_life, up to the coefficient of line 35
SpreadLag(spread) ==
    Series([t \in DOMAIN spread |-> IF t = 1 THEN NaN ELSE spread[t - 1]])

SpreadDiff(spread) ==
    Series([t \in DOMAIN spread |->
               IF t = 1 THEN NaN ELSE RSub(spread[t], spread[t - 1])])

HalfLifeFit(lag, diff) ==
    IF FitRaises(lag, diff) THEN [raised |-> TRUE, coef |-> NaN]
    ELSE [raised |-> FALSE, coef |-> LinearRegression_fit(lag, diff).coef]

calculate_half_life(self, spread) ==
    HalfLifeFit(DropNa(SpreadLag(spread)), DropNa(SpreadDiff(spread)))

\* lines 36 and 110: half_life is -ln(2)/coef for coef < 0 and inf otherwise,
\* so half_life < min_half_life is ln(2) < min_half_life * (-coef); ln(2) is
\* 0.6931..., and no product of the model lies between 0.693 and ln(2)
Ln2 == <<693, 1000>>

HalfLifeRejected(self, coef) ==
    \/ ~RLt(coef, RInt(0))
    \/ RLt(Ln2, RMul(RInt(self.min_half_life), RNeg(coef)))

\* calculate_zscore.  The rolling mean needs min_periods = lookback_period // 2
\* observations and the rolling std at least 2; before that, and where the
\* std is 0, the quotient is missing and fillna(0) makes it 0.  A z-score is
\* held as its signed square z*|z|, which is rational and orders as z does.
SignedSquare(r) == IF r[1] < 0 THEN RNeg(RMul(r, r)) ELSE RMul(r, r)

ZScoreDefined(count, lookback) == count >= lookback \div 2 /\ count >= 2

ZWindow(spread, t, lookback) ==
    DropNa(SubSeq(spread, Max(1, t - lookback + 1), t))

ZMean(w) == RDiv(RSum(w, Len(w)), RInt(Len(w)))

ZDeviations(w, mean) ==
    [k \in DOMAIN w |-> RMul(RSub(w[k], mean), RSub(w[k], mean))]

ZVar(w) == RDiv(RSum(ZDeviations(w, ZMean(w)), Len(w)), RInt(Len(w) - 1))

ZQuotient(d, var) ==
    IF IsNaN(d) \/ IsNaN(var) \/ var[1] = 0 THEN RInt(0)
    ELSE RDiv(SignedSquare(d), var)

ZScoreOfWindow(x, w, lookback) ==
    IF ~ZScoreDefined(Len(w), lookback) THEN RInt(0)
    ELSE ZQuotient(RSub(x, ZMean(w)), ZVar(w))

calculate_zscore(self, spread) ==
    Series([t \in DOMAIN spread |->
               ZScoreOfWindow(spread[t],
                              ZWindow(spread, t, self.lookback_period),
                              self.lookback_period)])

NoLib == [adf_pass |-> FALSE]

LibOutcomes == {[adf_pass |-> b] : b \in BOOLEAN}

\* check_cointegration: dropna keeps the rows where both prices are present
check_cointegrationAlwaysPasses(self, series1, series2, lib) == TRUE

ValidRows(series1, series2) ==
    {t \in DOMAIN series1 : series1[t] # Missing /\ series2[t] # Missing}

check_cointegration(self, series1, series2, lib) ==
    IF Len(series1) # Len(series2) THEN FALSE
    ELSE IF Cardinality(ValidRows(series1, series2)) < self.lookback_period
         THEN FALSE
    ELSE lib.adf_pass

\* lines 116-121: entries, then the exit band written over them
ThresholdSignalsExitFirst(self, zscore) ==
    LET s0 == [t \in DOMAIN zscore |-> 0]
        s1 == [t \in DOMAIN zscore |->
                  IF /\ RGt(zscore[t], SignedSquare(RNeg(self.exit_zscore)))
                     /\ RLt(zscore[t], SignedSquare(self.exit_zscore))
                  THEN 0 ELSE s0[t]]
        s2 == [t \in DOMAIN zscore |->
                  IF RGt(zscore[t], SignedSquare(self.entry_zscore))
                  THEN -1 ELSE s1[t]]
    IN  Series([t \in DOMAIN zscore |->
                   IF RLt(zscore[t], SignedSquare(RNeg(self.entry_zscore)))
                   THEN 1 ELSE s2[t]])

ThresholdSignals(self, zscore) ==
    LET s0 == [t \in DOMAIN zscore |-> 0]
        s1 == [t \in DOMAIN zscore |->
                  IF RGt(zscore[t], SignedSquare(self.entry_zscore))
                  THEN -1 ELSE s0[t]]
        s2 == [t \in DOMAIN zscore |->
                  IF RLt(zscore[t], SignedSquare(RNeg(self.entry_zscore)))
                  THEN 1 ELSE s1[t]]
    IN  Series([t \in DOMAIN zscore |->
                   IF /\ RGt(zscore[t], SignedSquare(RNeg(self.exit_zscore)))
                      /\ RLt(zscore[t], SignedSquare(self.exit_zscore))
                   THEN 0 ELSE s2[t]])

\* signals.shift(1).fillna(0) != signals
EntryPoints(signals) ==
    [i \in DOMAIN signals |->
        (IF i = 1 THEN 0 ELSE signals[i - 1]) # signals[i]]

\* the comparison of line 129
HoldExpiredStrict(i, last_entry, hold) == i - last_entry > hold

HoldExpiredCountsEntry(i, last_entry, hold) == i - last_entry + 1 >= hold

HoldExpired(i, last_entry, hold) == i - last_entry >= hold

\* lines 125-130: the scan from bar i on; last_entry = 0 stands for None
RECURSIVE HoldScan(_, _, _, _, _)
HoldScan(signals, entry_points, hold, i, last_entry) ==
    IF i > Len(signals) THEN signals
    ELSE IF entry_points[i]
         THEN HoldScan(signals, entry_points, hold, i + 1, i)
    ELSE IF last_entry # 0 /\ HoldExpired(i, last_entry, hold)
         THEN HoldScan([signals EXCEPT ![i] = 0], entry_points, hold, i + 1,
                       last_entry)
    ELSE HoldScan(signals, entry_points, hold, i + 1, last_entry)

EnforceMaxHold(self, signals) ==
    HoldScan(signals, EntryPoints(signals), self.max_position_hold, 1, 0)

\* lines 108-132, hl being the outcome of calculate_half_life(spread)
StatArb_after_half_life(self, data, spread, hl) ==
    IF hl.raised THEN Raised(data)
    ELSE IF HalfLifeRejected(self, hl.coef) THEN Returned(FlatSeries(data), data)
    ELSE Returned(EnforceMaxHold(self,
                      ThresholdSignals(self, calculate_zscore(self, spread))),
                  data)

StatArb_after_spread(self, data, spread) ==
    StatArb_after_half_life(self, data, spread,
                            calculate_half_life(self, spread))

\* lines 104-105, h being the outcome of calculate_hedge_ratio
StatArb_after_hedge_ratio(self, data, h) ==
    IF h.raised THEN Raised(data)
    ELSE StatArb_after_spread(self, data,
             Spread(data.cols["close"], data.cols["benchmark_close"],
                    h.hedge_ratio, h.intercept))

StatArb_generate_signals(self, data, lib) ==
    IF data.len < self.lookback_period THEN Returned(FlatSeries(data), data)
    ELSE IF ~HasCol(data, "benchmark_close")
         THEN Returned(FlatSeries(data), data)
    ELSE IF ~check_cointegration(self, data.cols["close"],
                                 data.cols["benchmark_close"], lib)
         THEN Returned(FlatSeries(data), data)
    ELSE StatArb_after_hedge_ratio(self, data,
             calculate_hedge_ratio(self, data.cols["close"],
                                   data.cols["benchmark_close"]))

\* the strategy instance as a call of generate_signals leaves it: no
\* generate_signals assigns an attribute of self
SelfRemembersCall(self, g) ==
    IF self.cls = "StatisticalArbitrageStrategy"
    THEN [self EXCEPT !.max_position_hold = Len(g.signals) + 1]
    ELSE [self EXCEPT !.window = Len(g.signals) + 1]

SelfAfter(self, g) == self

\* BaseStrategy.generate_signals, dispatched on the class of the strategy
generate_signals(strategy, data, lib) ==
    CASE strategy.cls = "MomentumStrategy" ->
             Momentum_generate_signals(strategy, data)
      [] strategy.cls = "MeanReversionStrategy" ->
             MeanReversion_generate_signals(strategy, data)
      [] strategy.cls = "StatisticalArbitrageStrategy" ->
             StatArb_generate_signals(strategy, data, lib)

\* ------------------------------------------------------- BacktestingEngine
\* Series.pct_change()
PctChange(close) ==
    Series([t \in DOMAIN close |->
               IF t = 1 THEN NaN
               ELSE RSub(RDiv(RInt(close[t]), RInt(close[t - 1])), RInt(1))])

\* Series.shift(1) of an integer series: a float series, missing at the top
Shift1(series) ==
    Series([t \in DOMAIN series |-> IF t = 1 THEN NaN ELSE RInt(series[t - 1])])

\* Series.cumprod(): missing values are skipped and stay missing
RECURSIVE CumProdFrom(_, _, _)
CumProdFrom(series, t, acc) ==
    IF t > Len(series) THEN <<>>
    ELSE IF IsNaN(series[t]) THEN <<NaN>> \o CumProdFrom(series, t + 1, acc)
    ELSE LET p == RMul(acc, series[t])
         IN  <<p>> \o CumProdFrom(series, t + 1, p)

CumProd(series) == CumProdFrom(series, 1, RInt(1))

\* line 18
StrategyReturnsNoShift(signal, returns) ==
    Series([t \in DOMAIN returns |-> RMul(RInt(signal[t]), returns[t])])

StrategyReturns(signal, returns) ==
    LET shifted == Shift1(signal)
    IN  Series([t \in DOMAIN returns |-> RMul(shifted[t], returns[t])])

\* lines 20-21
Equity(returns) ==
    LET growth == CumProd(Series([t \in DOMAIN returns |->
                                     RAdd(RInt(1), returns[t])]))
    IN  Series([t \in DOMAIN growth |-> RMul(growth[t], RInt(initial_capital))])

\* line 12: df is a copy, so what the task writes never shows in the
\* caller's frame
CallerFrameAliased(data, df) == df

CallerFrameAfter(data, df) == data

\* lines 14, 16, 18, 20, 21: the columns the task adds to its frame
WithSignal(df, signals) == SetCol(df, "Signal", signals)

WithReturns(df) == SetCol(df, "Returns", PctChange(df.cols["close"]))

WithStrategyReturns(df) ==
    SetCol(df, "Strategy_Returns",
           StrategyReturns(df.cols["Signal"], df.cols["Returns"]))

WithCumulativeStrategy(df) ==
    SetCol(df, "Cumulative_Strategy", Equity(df.cols["Strategy_Returns"]))

WithCumulativeMarket(df) ==
    SetCol(df, "Cumulative_Market", Equity(df.cols["Returns"]))

\* how a call of _backtest_strategy ends: it raised or returned `df`; `data`
\* is the caller's frame as the call leaves it
BacktestOutcome(raised, data, df) ==
    [raised |-> raised, df |-> df, data |-> CallerFrameAfter(data, df)]

\* lines 14-22, g being the outcome of strategy.generate_signals(df)
BacktestAfterSignals(data, g) ==
    IF g.raised THEN BacktestOutcome(TRUE, data, g.df)
    ELSE BacktestOutcome(FALSE, data,
             WithCumulativeMarket(WithCumulativeStrategy(WithStrategyReturns(
                 WithReturns(WithSignal(g.df, g.signals))))))

\* BacktestingEngine._backtest_strategy
backtest_strategy(strategy, data, lib) ==
    BacktestAfterSignals(data, generate_signals(strategy, data, lib))

\* -------------------------------------------------------------- RiskEngine
\* the column lookups that open each method: a missing column is a KeyError
calculate_tail_risk_metrics(df) ==
    IF HasCol(df, "strategy_returns") THEN "report" ELSE "KeyError"

calculate_drawdown_metrics(df) ==
    IF HasCol(df, "cumulative_strategy") THEN "report" ELSE "KeyError"

\* main.analyze_strategy_results: both methods on every table of the mapping
analyze_strategy_results(results_dict) ==
    IF \A k \in DOMAIN results_dict :
           /\ calculate_tail_risk_metrics(results_dict[k]) = "report"
           /\ calculate_drawdown_metrics(results_dict[k]) = "report"
    THEN "report" ELSE "KeyError"

\* ---------------------------------------- RiskEngine: drawdown computation
\* A risk table: a ResultTable with its date index (day numbers, increasing)
RiskTable(index, columns) ==
    [len |-> Len(index), index |-> index, cols |-> columns]

\* the larger of two floats, a missing one being skipped
MaxSkipNa(a, b) ==
    IF IsNaN(a) THEN b ELSE IF IsNaN(b) THEN a ELSE IF RLt(a, b) THEN b ELSE a

MinSkipNa(a, b) ==
    IF IsNaN(a) THEN b ELSE IF IsNaN(b) THEN a ELSE IF RLt(b, a) THEN b ELSE a

RECURSIVE MaxUpTo(_, _)
MaxUpTo(s, t) == IF t = 0 THEN NaN ELSE MaxSkipNa(MaxUpTo(s, t - 1), s[t])

\* Series.cummax(): the largest value seen so far, missing at a missing row
CumMax(s) ==
    Series([t \in DOMAIN s |-> IF IsNaN(s[t]) THEN NaN ELSE MaxUpTo(s, t)])

\* line 115: (equity_curve - running_max) / running_max
DrawdownAt(equity, running_max) == RDiv(RSub(equity, running_max), running_max)

DrawdownsFrom(equity_curve, running_max) ==
    Series([t \in DOMAIN equity_curve |->
               DrawdownAt(equity_curve[t], running_max[t])])

Drawdowns(equity_curve) == DrawdownsFrom(equity_curve, CumMax(equity_curve))

\* Series.min(): the smallest non-missing value, missing when there is none
RECURSIVE MinUpTo(_, _)
MinUpTo(s, t) == IF t = 0 THEN NaN ELSE MinSkipNa(MinUpTo(s, t - 1), s[t])

SeriesMin(s) == MinUpTo(s, Len(s))

\* Series.mean() of a series without missing values
RMean(s) == RDiv(RSum(s, Len(s)), RInt(Len(s)))

\* drawdowns < 0 (False at a missing row)
IsDrawdown(drawdowns) ==
    [t \in DOMAIN drawdowns |-> RLt(drawdowns[t], RInt(0))]

\* drawdowns[drawdowns < 0]
NegativeDrawdowns(drawdowns) ==
    SelectSeq(drawdowns, LAMBDA d : RLt(d, RInt(0)))

\* line 118
AverageDrawdown(drawdowns) ==
    IF NegativeDrawdowns(drawdowns) = <<>> THEN RInt(0)
    ELSE RMean(NegativeDrawdowns(drawdowns))

\* is_drawdown.astype(int).diff(): 2 stands for the missing first difference
NoChange == 2

DrawdownPeriods(is_drawdown) ==
    [t \in DOMAIN is_drawdown |->
        IF t = 1 THEN NoChange
        ELSE AsInt(is_drawdown[t]) - AsInt(is_drawdown[t - 1])]

\* lines 123-131: the loop over drawdown_periods.items(); the state after the
\* first t rows is the open start (0 for None) and the recovery times so far
NoStart == 0

LoopState(start, times) == [current_drawdown_start |-> start,
                            recovery_times |-> times]

LoopStepCountsRows(st, change, index, t) ==
    IF change = 1 THEN LoopState(t, st.recovery_times)
    ELSE IF change = -1 /\ st.current_drawdown_start # NoStart
    THEN LoopState(NoStart,
                   Append(st.recovery_times, t - st.current_drawdown_start))
    ELSE st

LoopStep(st, change, index, t) ==
    IF change = 1 THEN LoopState(t, st.recovery_times)
    ELSE IF change = -1 /\ st.current_drawdown_start # NoStart
    THEN LoopState(NoStart,
                   Append(st.recovery_times,
                          index[t] - index[st.current_drawdown_start]))
    ELSE st

RECURSIVE RecoveryLoop(_, _, _)
RecoveryLoop(periods, index, t) ==
    IF t = 0 THEN LoopState(NoStart, <<>>)
    ELSE LoopStep(RecoveryLoop(periods, index, t - 1), periods[t], index, t)

RecoveryTimes(drawdowns, index) ==
    RecoveryLoop(DrawdownPeriods(IsDrawdown(drawdowns)), index,
                 Len(drawdowns)).recovery_times

\* np.mean of a non-empty list of day counts
MeanOfInts(xs) == Rat(SumRange(xs, 1, Len(xs)), Len(xs))

\* line 133
AverageRecoveryTime(recovery_times) ==
    IF recovery_times = <<>> THEN RInt(0) ELSE MeanOfInts(recovery_times)

\* line 134
DrawdownFrequency(recovery_times, n) ==
    IF n > 0 THEN Rat(Len(recovery_times), n) ELSE RInt(0)

ZeroDrawdownReport ==
    [max_drawdown |-> RInt(0), average_drawdown |-> RInt(0),
     average_recovery_time |-> RInt(0), drawdown_frequency |-> RInt(0)]

DrawdownReport(drawdowns, recovery_times) ==
    [max_drawdown |-> SeriesMin(drawdowns),
     average_drawdown |-> AverageDrawdown(drawdowns),
     average_recovery_time |-> AverageRecoveryTime(recovery_times),
     drawdown_frequency |->
         DrawdownFrequency(recovery_times, Len(drawdowns))]

\* RiskEngine.calculate_drawdown_metrics on a table that has the column
ReportOfDrawdowns(drawdowns, index) ==
    DrawdownReport(drawdowns, RecoveryTimes(drawdowns, index))

drawdown_metrics(df) ==
    IF Len(df.cols["cumulative_strategy"]) < 2 THEN ZeroDrawdownReport
    ELSE ReportOfDrawdowns(Drawdowns(df.cols["cumulative_strategy"]),
                           df.index)

\* ---------------------------------------- RiskEngine: tail-risk computation
\* np.percentile(a, q * 100), q in [0, 1], default linear interpolation:
\* the value at position (n - 1) * q of the sorted sample
RFloor(r) == r[1] \div r[2]

PercentilePos(n, q) == RMul(RInt(n - 1), q)

Interpolate(lo, hi, frac) == RAdd(lo, RMul(frac, RSub(hi, lo)))

PercentileOfSorted(v, pos) ==
    IF RFloor(pos) + 2 > Len(v) THEN v[RFloor(pos) + 1]
    ELSE Interpolate(v[RFloor(pos) + 1], v[RFloor(pos) + 2],
                     RSub(pos, RInt(RFloor(pos))))

Percentile(a, q) ==
    PercentileOfSorted(SortFloats(a, Len(a)), PercentilePos(Len(a), q))

\* np.isclose(returns.std(), 0): the sample standard deviation of the values
\* the model draws is zero exactly when they are all equal
StdNearZero(returns) == \A t \in DOMAIN returns : returns[t] = returns[1]

\* outcome of scipy on the sample: the normal quantile (NaN when it is
\* undefined), whether genpareto.fit raises, and the fitted quantile
Scipy(ppf, raises, evt) ==
    [norm_ppf |-> ppf, fit_raises |-> raises, genpareto_ppf |-> evt]

\* lines 33-41
ParametricVarNoFallback(returns, hist_var, scipy) == scipy.norm_ppf

ParametricVar(returns, hist_var, scipy) ==
    IF StdNearZero(returns) THEN hist_var
    ELSE IF IsNaN(scipy.norm_ppf) THEN hist_var
    ELSE scipy.norm_ppf

\* returns[returns <= hist_var]
CvarReturnsStrictlyBelow(returns, hist_var) ==
    SelectSeq(returns, LAMBDA r : RLt(r, hist_var))

CvarReturns(returns, hist_var) ==
    SelectSeq(returns, LAMBDA r : RLt(r, hist_var) \/ r = hist_var)

\* lines 44-45
ConditionalVar(returns, hist_var) ==
    IF Len(CvarReturns(returns, hist_var)) > 0
    THEN RMean(CvarReturns(returns, hist_var))
    ELSE hist_var

\* -returns[returns < 0]
NegativeReturns(returns) ==
    [t \in DOMAIN SelectSeq(returns, LAMBDA r : RLt(r, RInt(0))) |->
        RNeg(SelectSeq(returns, LAMBDA r : RLt(r, RInt(0)))[t])]

\* lines 48-56
EvtVar(returns, hist_var, scipy) ==
    IF Len(NegativeReturns(returns)) > 10
    THEN IF scipy.fit_raises THEN hist_var ELSE RNeg(scipy.genpareto_ppf)
    ELSE hist_var

ZeroTailReport ==
    [historical_var |-> RInt(0), parametric_var |-> RInt(0),
     conditional_var |-> RInt(0), evt_var |-> RInt(0)]

TailReport(returns, hist_var, scipy) ==
    [historical_var |-> hist_var,
     parametric_var |-> ParametricVar(returns, hist_var, scipy),
     conditional_var |-> ConditionalVar(returns, hist_var),
     evt_var |-> EvtVar(returns, hist_var, scipy)]

\* lines 21-30
TailRiskOfOneSuffices(returns, confidence_level, scipy) ==
    IF Len(returns) < 1 THEN ZeroTailReport
    ELSE TailReport(returns,
                    Percentile(returns, RSub(RInt(1), confidence_level)),
                    scipy)

TailRiskOf(returns, confidence_level, scipy) ==
    IF Len(returns) < 2 THEN ZeroTailReport
    ELSE TailReport(returns,
                    Percentile(returns, RSub(RInt(1), confidence_level)),
                    scipy)

\* RiskEngine.calculate_tail_risk_metrics on a table that has the column
tail_risk_metrics(df, confidence_level, scipy) ==
    TailRiskOf(DropNa(df.cols["strategy_returns"]), confidence_level, scipy)

\* ------------------------------------- RiskEngine: factor exposures (65-96)
\* factor_returns is None
NoFactors == [none |-> TRUE]

RowOf(index, day) == CHOOSE t \in DOMAIN index : index[t] = day

Days(index) == {index[t] : t \in DOMAIN index}

\* rows of the risk table whose strategy return is not missing (dropna keeps
\* their index) and whose day is in the factor table too
CommonRows(df, factor_returns) ==
    SelectSeq([t \in DOMAIN df.index |-> t],
              LAMBDA t : /\ ~IsNaN(df.cols["strategy_returns"][t])
                         /\ df.index[t] \in Days(factor_returns.index))

\* strategy_returns.loc[common_idx] and factor_returns.loc[common_idx][name]
LocReturns(df, rows) ==
    [k \in DOMAIN rows |-> df.cols["strategy_returns"][rows[k]]]

LocFactor(df, factor_returns, name, rows) ==
    [k \in DOMAIN rows |->
        factor_returns.cols[name][RowOf(factor_returns.index,
                                        df.index[rows[k]])]]

\* factor_returns.columns.tolist(), for the tables of at most one column
Columns(factor_returns) ==
    IF DOMAIN factor_returns.cols = {} THEN <<>>
    ELSE <<CHOOSE name \in DOMAIN factor_returns.cols : TRUE>>

IsConstant(xs) == \A t \in DOMAIN xs : xs[t] = xs[1]

\* pinv(X.T @ X) @ X.T @ y.  Without a factor the intercept is the mean of
\* y; with one factor it is the least-squares line, and for a constant
\* factor c the minimum-norm solution mean(y) / (1 + c*c) * (1, c)
MinNormBetas(c, ybar) ==
    <<RDiv(ybar, RAdd(RInt(1), RMul(c, c))),
      RDiv(RMul(ybar, c), RAdd(RInt(1), RMul(c, c)))>>

LineBetas(fit) == <<fit.intercept, fit.coef>>

PinvBetas(X, y) ==
    IF X = <<>> THEN <<RMean(y)>>
    ELSE IF HasNaN(X[1]) THEN <<NaN, NaN>>
    ELSE IF IsConstant(X[1]) THEN MinNormBetas(X[1][1], RMean(y))
    ELSE LineBetas(LinearRegression_fit(X[1], y))

\* y_pred = X @ betas
Predict(X, betas, t) ==
    IF X = <<>> THEN betas[1] ELSE RAdd(betas[1], RMul(betas[2], X[1][t]))

SquaredErrors(y, X, betas) ==
    [t \in DOMAIN y |-> RMul(RSub(y[t], Predict(X, betas, t)),
                             RSub(y[t], Predict(X, betas, t)))]

SquaredDeviations(y, ybar) ==
    [t \in DOMAIN y |-> RMul(RSub(y[t], ybar), RSub(y[t], ybar))]

\* Python's max(0, x): x when x > 0, else 0 (also for a NaN x)
PyMax0(x) == IF RGt(x, RInt(0)) THEN x ELSE RInt(0)

\* line 89; a zero total sum of squares makes the quotient NaN or infinite,
\* and max(0, .) of either is 0
RSquaredRaw(y, X, betas) ==
    RSub(RInt(1),
         RDiv(RSum(SquaredErrors(y, X, betas), Len(y)),
              RSum(SquaredDeviations(y, RMean(y)), Len(y))))

RSquared(y, X, betas) == PyMax0(RSquaredRaw(y, X, betas))

EmptyExposures == [factor_betas |-> <<>>, r_squared |-> RInt(0)]

\* dict(zip(['alpha'] + columns, betas))
ZipBetasNoAlpha(columns, betas) ==
    [name \in {columns[k] : k \in DOMAIN columns} |->
        betas[1 + (CHOOSE k \in DOMAIN columns : columns[k] = name)]]

ZipBetas(columns, betas) ==
    [name \in {"alpha"} \cup {columns[k] : k \in DOMAIN columns} |->
        IF name = "alpha" THEN betas[1]
        ELSE betas[1 + (CHOOSE k \in DOMAIN columns : columns[k] = name)]]

\* lines 86-96; the SVD inside pinv raises LinAlgError on a matrix that holds
\* a NaN when linalg.svd_raises, and returns NaN betas otherwise
ExposuresOf(y, X, columns, linalg) ==
    IF X # <<>> /\ HasNaN(X[1]) /\ linalg.svd_raises THEN EmptyExposures
    ELSE [factor_betas |-> ZipBetas(columns, PinvBetas(X, y)),
          r_squared |-> RSquared(y, X, PinvBetas(X, y))]

FactorMatrix(df, factor_returns, rows) ==
    [k \in DOMAIN Columns(factor_returns) |->
        LocFactor(df, factor_returns, Columns(factor_returns)[k], rows)]

\* RiskEngine.calculate_factor_exposures on a table that has the column
factor_exposures(df, factor_returns, linalg) ==
    IF Len(DropNa(df.cols["strategy_returns"])) < 2
       \/ factor_returns = NoFactors
    THEN EmptyExposures
    ELSE IF Len(CommonRows(df, factor_returns)) < 2 THEN EmptyExposures
    ELSE ExposuresOf(LocReturns(df, CommonRows(df, factor_returns)),
                     FactorMatrix(df, factor_returns,
                                  CommonRows(df, factor_returns)),
                     Columns(factor_returns), linalg)

\* ------------------------------------------------------------------ inputs
SeqsOfLen(S, n) == [1..n -> S]

\* a price table of n bars, with or without the benchmark_close column
FramesOfLen(n) ==
    {Frame(n, "close" :> c) : c \in SeqsOfLen(PriceVals, n)}
    \cup {Frame(n, ("close" :> c) @@ ("benchmark_close" :> b)) :
              c \in SeqsOfLen(PriceVals, n), b \in SeqsOfLen(BenchVals, n)}

Frames == UNION {FramesOfLen(n) : n \in 0..MaxBars}

\* Momentum and MeanReversion never read benchmark_close: for them one
\* benchmark series is enough
PlainFrames ==
    {d \in Frames : HasCol(d, "benchmark_close") =>
                        \A t \in Rows(d) : d.cols["benchmark_close"][t] = 1}

\* the pair tables of up to PairBars bars, and those with one missing price
PairFrames == UNION {FramesOfLen(n) : n \in 0..PairBars}

WithMissing(df, col, t) ==
    [df EXCEPT !.cols[col] = [@ EXCEPT ![t] = Missing]]

MissingFrames ==
    UNION {{WithMissing(d, col, t) :
               col \in {"close", "benchmark_close"}, t \in Rows(d)} :
              d \in {f \in PairFrames : HasCol(f, "benchmark_close")}}

Thresholds == {<<1, 20>>, <<1, 2>>}

MomentumPool == {MomentumStrategy(w) : w \in {-1, 1, 2, 3}}

MeanReversionPool ==
    {MeanReversionStrategy(w, th) : w \in {-1, 1, 2, 3}, th \in Thresholds}

\* (entry_zscore, exit_zscore)
ZBands == {<<<<1, 2>>, <<1, 10>>>>, <<<<1, 1>>, <<1, 2>>>>}

StatArbPool ==
    {StatisticalArbitrageStrategy(lb, e[1], e[2], hold, 1) :
         lb \in {2, 3}, e \in ZBands, hold \in {1, 2}}

StrategyPool == MomentumPool \cup MeanReversionPool \cup StatArbPool

\* does generate_signals reach the numerical stages on this frame
ConsultsLib(strategy, df) ==
    /\ strategy.cls = "StatisticalArbitrageStrategy"
    /\ df.len >= strategy.lookback_period
    /\ HasCol(df, "benchmark_close")
    /\ Cardinality(ValidRows(df.cols["close"], df.cols["benchmark_close"]))
           >= strategy.lookback_period

LibFor(strategy, df) == IF ConsultsLib(strategy, df) THEN LibOutcomes ELSE {NoLib}

\* the steadily rising tables close = 1, 2, .., n
TrendFrames == {Frame(n, "close" :> [t \in 1..n |-> t]) : n \in 3..MaxBars}

FramesFor(strategy) ==
    IF strategy.cls = "StatisticalArbitrageStrategy"
    THEN PairFrames \cup PlainFrames \cup TrendFrames
    ELSE PlainFrames \cup TrendFrames

\* ------------------------------------------------------------------- state
VARIABLES
    strategies,  \* BacktestingEngine.strategies
    data,        \* the price table handed to the engine or to a strategy
    lib,         \* outcome of the numerical libraries on `data`
    call,        \* a direct call of generate_signals / _backtest_strategy
    alt,         \* a second price table
    libAlt,      \* outcome of the numerical libraries on `alt`
    callAlt,     \* the call of generate_signals on `alt`
    again,       \* a second call of generate_signals with the first argument
    inv,         \* which invocation of run_all: "first" or "second"
    pc,          \* position of the thread inside run_all
    nsub,        \* tasks submitted so far by the dict comprehension
    fut,         \* state of each submitted future
    fres,        \* the frame a finished future holds
    yielded,     \* futures as_completed has handed out
    results,     \* the results dict of run_all
    first,       \* how the first invocation ended, and its return value
    analysis,    \* outcome of analyze_strategy_results on the mapping
    instance,    \* RealTimeDataIngestor._instance
    objects,     \* the ingestor objects allocated so far
    tpc,         \* position of each thread that constructs and starts
    tself,       \* the object the constructor call of a thread works on
    loops        \* the connection loops start() has spawned

inputVars == <<strategies, data, lib>>
calcVars == <<call, alt, libAlt, callAlt, again>>
runVars == <<inv, pc, nsub, fut, fres, yielded, results, first, analysis>>
ingestVars == <<instance, objects, tpc, tself, loops>>
vars == <<strategies, data, lib, call, alt, libAlt, callAlt, again, inv, pc,
          nsub, fut, fres, yielded, results, first, analysis, instance,
          objects, tpc, tself, loops>>

EmptyFrame == Frame(0, <<>>)

NoCall == [op |-> "none"]

Tasks == 1..Len(strategies)

RunIdle ==
    /\ inv = "first"
    /\ pc = "idle"
    /\ nsub = 0
    /\ fut = [i \in Tasks |-> "new"]
    /\ fres = [i \in Tasks |-> EmptyFrame]
    /\ yielded = {}
    /\ results = <<>>
    /\ first = [ended |-> "none", results |-> <<>>]
    /\ analysis = "none"

CalcIdle ==
    /\ call = NoCall
    /\ alt = data
    /\ libAlt = lib
    /\ callAlt = NoCall
    /\ again = NoCall

IngestIdle ==
    /\ instance = 0
    /\ objects = <<>>
    /\ tpc = [i \in 1..MaxThreads |-> "new"]
    /\ tself = [i \in 1..MaxThreads |-> 0]
    /\ loops = <<>>

\* ------------------------------------------- direct calls (pure functions)
InitCalc ==
    /\ \E s \in StrategyPool : \E d \in FramesFor(s) :
          /\ strategies = <<s>>
          /\ data = d
          /\ lib \in LibFor(s, d)
    /\ CalcIdle
    /\ RunIdle
    /\ IngestIdle

\* strategy.generate_signals(data)
Called(op, arg, ret) == [op |-> op, arg |-> arg, ret |-> ret]

CallGenerateSignals ==
    /\ call.op = "none"
    /\ call' = Called("generate_signals", data,
                      generate_signals(strategies[1], data, lib))
    /\ data' = call'.ret.df
    /\ strategies' = [strategies EXCEPT ![1] = SelfAfter(@, call'.ret)]
    /\ UNCHANGED <<ingestVars, lib, alt, libAlt, callAlt, again, runVars>>

\* engine._backtest_strategy(strategy, data)
CallBacktestStrategy ==
    /\ call.op = "none"
    /\ call' = Called("backtest_strategy", data,
                      backtest_strategy(strategies[1], data, lib))
    /\ data' = call'.ret.data
    /\ UNCHANGED <<ingestVars, strategies, lib, alt, libAlt, callAlt, again, runVars>>

NextCalc == CallGenerateSignals \/ CallBacktestStrategy

SpecCalc == InitCalc /\ [][NextCalc]_vars

\* ------------------------------------------------ two tables, one strategy
CausalPool == MomentumPool \cup MeanReversionPool

InitCausal ==
    /\ \E s \in CausalPool, d \in PlainFrames, a \in PlainFrames :
          /\ DOMAIN a.cols = DOMAIN d.cols
          /\ strategies = <<s>>
          /\ data = d
          /\ alt = a
          /\ lib \in LibFor(s, d)
    /\ libAlt = lib
    /\ call = NoCall
    /\ callAlt = NoCall
    /\ again = NoCall
    /\ RunIdle
    /\ IngestIdle

\* strategy.generate_signals(alt)
CallGenerateSignalsAlt ==
    /\ callAlt.op = "none"
    /\ callAlt' = Called("generate_signals", alt,
                         generate_signals(strategies[1], alt, libAlt))
    /\ alt' = callAlt'.ret.df
    /\ strategies' = [strategies EXCEPT ![1] = SelfAfter(@, callAlt'.ret)]
    /\ UNCHANGED <<ingestVars, lib, libAlt, data, call, again, runVars>>

NextCausal == CallGenerateSignals \/ CallGenerateSignalsAlt

SpecCausal == InitCausal /\ [][NextCausal]_vars

\* ------------------------------- StatisticalArbitrage on incomplete tables
InitStatArb ==
    /\ \E s \in StatArbPool : \E d \in PairFrames \cup MissingFrames :
          /\ strategies = <<s>>
          /\ data = d
          /\ lib \in LibFor(s, d)
    /\ CalcIdle
    /\ RunIdle
    /\ IngestIdle

NextStatArb == CallGenerateSignals

SpecStatArb == InitStatArb /\ [][NextStatArb]_vars

\* --------------------------- one instance, calls on two tables and a repeat
PairPool ==
    {s \in StatArbPool : s.max_position_hold = 1}
    \cup {MomentumStrategy(2), MeanReversionStrategy(2, <<1, 20>>)}

\* the table itself and the tables that differ from it in the last close
AltTables(d) ==
    {d} \cup {[d EXCEPT !.cols["close"] = [@ EXCEPT ![d.len] = v]] :
                 v \in IF d.len = 0 THEN {} ELSE PriceVals}

InitPair ==
    /\ \E s \in PairPool : \E d \in PairFrames \cap FramesFor(s) :
          \E a \in AltTables(d) :
              /\ strategies = <<s>>
              /\ data = d
              /\ alt = a
              /\ lib \in LibFor(s, d)
              /\ libAlt \in IF a = d THEN {lib} ELSE LibFor(s, a)
    /\ call = NoCall
    /\ callAlt = NoCall
    /\ again = NoCall
    /\ RunIdle
    /\ IngestIdle

\* strategy.generate_signals(data) once more, on a table equal to the first
\* argument
CallGenerateSignalsAgain ==
    /\ call.op = "generate_signals"
    /\ again.op = "none"
    /\ again' = Called("generate_signals", call.arg,
                       generate_signals(strategies[1], call.arg, lib))
    /\ strategies' = [strategies EXCEPT ![1] = SelfAfter(@, again'.ret)]
    /\ UNCHANGED <<ingestVars, data, lib, call, alt, libAlt, callAlt, runVars>>

NextPair ==
    \/ CallGenerateSignals
    \/ CallGenerateSignalsAlt
    \/ CallGenerateSignalsAgain

SpecPair == InitPair /\ [][NextPair]_vars

\* ----------------------------------------------- BacktestingEngine.run_all
\* the strategies main_backtest configures, next to variants of them; the
\* statistical-arbitrage strategy is the one of config/settings.py (lookback
\* 60, entry 2.0, exit 0.5, hold 20, min_half_life 5)
default_lookback_period == 60

DefaultStatArb ==
    StatisticalArbitrageStrategy(default_lookback_period, <<2, 1>>, <<1, 2>>,
                                 20, 5)

RunPool ==
    {MomentumStrategy(2), MomentumStrategy(-1),
     MeanReversionStrategy(1, <<1, 20>>), MeanReversionStrategy(2, <<1, 20>>),
     DefaultStatArb}

StrategyLists == UNION {SeqsOfLen(RunPool, n) : n \in 0..MaxStrategies}

\* main_backtest joins benchmark_close before it calls run_all
RunFrames ==
    {d \in FramesOfLen(RunBars) :
        /\ HasCol(d, "benchmark_close")
        /\ \A t \in Rows(d) : d.cols["benchmark_close"][t] = 1}

Finished(i) == fut[i] \in {"done", "failed"}

\* str(type(strat).__name__)
ResultKey(strat) == strat.cls

Init ==
    /\ strategies \in StrategyLists
    /\ data \in RunFrames
    /\ lib \in LibFor(DefaultStatArb, data)
    /\ CalcIdle
    /\ RunIdle
    /\ IngestIdle

\* lines 25-26: a call of run_all starts; the executor is created
Invoke ==
    /\ \/ pc = "idle"
       \/ /\ pc \in {"returned", "raised"}
          /\ inv = "first"
    /\ inv' = IF pc = "idle" THEN "first" ELSE "second"
    /\ first' = IF pc = "idle" THEN first
                ELSE [ended |-> pc, results |-> results]
    /\ pc' = "submit"
    /\ nsub' = 0
    /\ fut' = [i \in Tasks |-> "new"]
    /\ fres' = [i \in Tasks |-> EmptyFrame]
    /\ yielded' = {}
    /\ results' = <<>>
    /\ UNCHANGED <<ingestVars, inputVars, calcVars, analysis>>

\* lines 27-30: executor.submit for the next strategy of the list
Submit ==
    /\ pc = "submit"
    /\ nsub < Len(strategies)
    /\ nsub' = nsub + 1
    /\ fut' = [fut EXCEPT ![nsub + 1] = "pending"]
    /\ UNCHANGED <<ingestVars, inputVars, calcVars, inv, pc, fres, yielded, results, first,
                   analysis>>

\* line 31: the comprehension is exhausted, as_completed starts
StartCollect ==
    /\ pc = "submit"
    /\ nsub = Len(strategies)
    /\ pc' = "collect"
    /\ UNCHANGED <<ingestVars, inputVars, calcVars, inv, nsub, fut, fres, yielded, results,
                   first, analysis>>

\* a worker thread of the pool takes the oldest queued work item
StartTask(i) ==
    /\ fut[i] = "pending"
    /\ \A j \in Tasks : j < i => fut[j] # "pending"
    /\ Cardinality({j \in Tasks : fut[j] = "running"}) < MaxWorkers
    /\ fut' = [fut EXCEPT ![i] = "running"]
    /\ UNCHANGED <<ingestVars, inputVars, calcVars, inv, pc, nsub, fres, yielded, results,
                   first, analysis>>

\* the worker runs _backtest_strategy(strat, data) to its end
TaskEnds(i, b) ==
    /\ fut' = [fut EXCEPT ![i] = IF b.raised THEN "failed" ELSE "done"]
    /\ fres' = [fres EXCEPT ![i] = IF b.raised THEN EmptyFrame ELSE b.df]
    /\ data' = b.data

FinishTask(i) ==
    /\ fut[i] = "running"
    /\ TaskEnds(i, backtest_strategy(strategies[i], data, lib))
    /\ UNCHANGED <<ingestVars, strategies, lib, calcVars, inv, pc, nsub, yielded, results,
                   first, analysis>>

\* lines 31-33: as_completed hands out a finished future; future.result()
\* returns the frame, stored under the class name, or re-raises
Collect(i) ==
    /\ pc = "collect"
    /\ Finished(i)
    /\ i \notin yielded
    /\ yielded' = yielded \cup {i}
    /\ IF fut[i] = "done"
       THEN /\ results' = (ResultKey(strategies[i]) :> fres[i]) @@ results
            /\ pc' = pc
       ELSE /\ results' = results
            /\ pc' = "unwind"
    /\ UNCHANGED <<ingestVars, inputVars, calcVars, inv, nsub, fut, fres, first, analysis>>

\* ThreadPoolExecutor.__exit__ is shutdown(wait=True): it joins the workers,
\* which first run every queued work item
JoinNoWait == TRUE

JoinWorkers == \A i \in Tasks : Finished(i)

\* line 34: the loop is exhausted, the with block exits, results is returned
Return ==
    /\ pc = "collect"
    /\ yielded = Tasks
    /\ JoinWorkers
    /\ pc' = "returned"
    /\ UNCHANGED <<ingestVars, inputVars, calcVars, inv, nsub, fut, fres, yielded, results,
                   first, analysis>>

\* the exception of future.result() leaves the with block and run_all
Propagate ==
    /\ pc = "unwind"
    /\ JoinWorkers
    /\ pc' = "raised"
    /\ UNCHANGED <<ingestVars, inputVars, calcVars, inv, nsub, fut, fres, yielded, results,
                   first, analysis>>

\* main.py lines 170-172: analyze_strategy_results(results_dict)
Analyze ==
    /\ pc = "returned"
    /\ pc' = "analyzed"
    /\ analysis' = analyze_strategy_results(results)
    /\ UNCHANGED <<ingestVars, inputVars, calcVars, inv, nsub, fut, fres, yielded, results,
                   first>>

Next ==
    \/ Invoke
    \/ Submit
    \/ StartCollect
    \/ \E i \in Tasks : StartTask(i)
    \/ \E i \in Tasks : FinishTask(i)
    \/ \E i \in Tasks : Collect(i)
    \/ Return
    \/ Propagate
    \/ Analyze

Spec == Init /\ [][Next]_vars

\* ------------------------------------ the threshold rule and the hold scan
\* spreads of up to PairBars bars and pre-cap signals of up to MaxBars bars
SpreadVals == {RInt(0), RInt(1), RInt(2), RInt(4)}

SpreadSeries == UNION {SeqsOfLen(SpreadVals, n) : n \in 0..PairBars}

RawSeries == UNION {SeqsOfLen({-1, 0, 1}, n) : n \in 0..MaxBars}

\* entry above exit, and entry below exit (the exit band covers entries)
SignalBands ==
    ZBands \cup {<<<<1, 2>>, <<1, 1>>>>}

SignalPool ==
    {StatisticalArbitrageStrategy(lb, b[1], b[2], hold, 1) :
        lb \in {2, 3}, b \in SignalBands, hold \in {1, 2, 3}}

InitSignals ==
    /\ \E s \in SignalPool : strategies = <<s>>
    /\ data = EmptyFrame
    /\ lib = NoLib
    /\ CalcIdle
    /\ RunIdle
    /\ IngestIdle

\* lines 113-121: zscore = self.calculate_zscore(spread), then the thresholds
ZScoreAndThresholds(self, spread) ==
    [zscore |-> calculate_zscore(self, spread),
     signals |-> ThresholdSignals(self, calculate_zscore(self, spread))]

CallThresholds ==
    /\ call.op = "none"
    /\ \E spread \in SpreadSeries :
          call' = Called("thresholds", spread,
                         ZScoreAndThresholds(strategies[1], spread))
    /\ UNCHANGED <<ingestVars, inputVars, alt, libAlt, callAlt, again, runVars>>

\* lines 123-132 on a pre-cap series
CallEnforceMaxHold ==
    /\ call.op = "none"
    /\ \E raw \in RawSeries :
          call' = Called("enforce_max_hold", raw,
                         EnforceMaxHold(strategies[1], raw))
    /\ UNCHANGED <<ingestVars, inputVars, alt, libAlt, callAlt, again, runVars>>

NextSignals == CallThresholds \/ CallEnforceMaxHold

SpecSignals == InitSignals /\ [][NextSignals]_vars

\* --------------------------------------------------------------- RiskEngine
\* RiskEngine(data) on tables of up to MaxObs rows (and the longer samples
\* named below) that hold the column the method reads, with daily dates or
\* a two-day gap after the second row
DailyIndex(n) == Series([t \in 1..n |-> t])

GappedIndex(n) == Series([t \in 1..n |-> IF t <= 2 THEN t ELSE t + 2])

Calendars(n) == {DailyIndex(n), GappedIndex(n)}

ReturnVals == {<<-3, 100>>, <<1, 200>>, <<1, 100>>}

\* returns 0.01, -0.02, 0.015, -0.03, 0.005
ScenarioC ==
    <<<<1, 100>>, <<-1, 50>>, <<3, 200>>, <<-3, 100>>, <<1, 200>>>>

EquityVals == {RInt(-2), RInt(-1), RInt(1), RInt(2)}

Confidences == {<<19, 20>>, <<1, 2>>}

\* the samples of n returns, missing values included
ShortSamples(n) == SeqsOfLen(ReturnVals \cup {NaN}, n)

\* samples around the threshold of 10 strictly negative returns: k losses,
\* of 2 % and 3 % in turn, followed by gains of 1 %
TailSample(n, k) ==
    Series([t \in 1..n |->
               IF t > k THEN <<1, 100>>
               ELSE IF t % 2 = 1 THEN <<-1, 50>> ELSE <<-3, 100>>])

TailSamples ==
    {TailSample(n, k) : n \in {MaxTail - 1, MaxTail}, k \in 0..MaxTail}

LongSamples == TailSamples \cup {ScenarioC}

ReturnTable(r) == RiskTable(DailyIndex(Len(r)), "strategy_returns" :> r)

\* the equity curves of n observations
EquityCurves(n) == SeqsOfLen(EquityVals \cup {NaN}, n)

EquityTable(index, e) == RiskTable(index, "cumulative_strategy" :> e)

\* the outcomes scipy can have on a sample; it is consulted for the normal
\* quantile when the standard deviation is not near zero, and for the
\* generalized-Pareto fit when more than 10 returns are strictly negative
NoScipy == Scipy(NaN, FALSE, NaN)

ConsultsNorm(returns) == Len(returns) >= 2 /\ ~StdNearZero(returns)

ConsultsPareto(returns) ==
    Len(returns) >= 2 /\ Len(NegativeReturns(returns)) > 10

ScipyFor(returns) ==
    {Scipy(ppf, raises, evt) :
        ppf \in IF ConsultsNorm(returns) THEN {NaN, <<-1, 25>>} ELSE {NaN},
        raises \in IF ConsultsPareto(returns) THEN BOOLEAN ELSE {FALSE},
        evt \in IF ConsultsPareto(returns) THEN {<<1, 20>>} ELSE {NaN}}

InitRisk ==
    /\ strategies = <<>>
    /\ data = EmptyFrame
    /\ lib = NoLib
    /\ CalcIdle
    /\ RunIdle
    /\ IngestIdle

\* RiskEngine(df).calculate_tail_risk_metrics(confidence_level)
TailRiskOn(df, c) ==
    \E sp \in ScipyFor(DropNa(df.cols["strategy_returns"])) :
        /\ data' = df
        /\ lib' = sp
        /\ call' = Called("calculate_tail_risk_metrics", c,
                          tail_risk_metrics(df, c, sp))

CallTailRisk ==
    /\ call.op = "none"
    /\ \E c \in Confidences :
          \/ \E n \in 0..MaxObs : \E r \in ShortSamples(n) :
                 TailRiskOn(ReturnTable(r), c)
          \/ \E r \in LongSamples : TailRiskOn(ReturnTable(r), c)
    /\ UNCHANGED <<ingestVars, strategies, alt, libAlt, callAlt, again,
                   runVars>>

\* RiskEngine(df).calculate_drawdown_metrics()
DrawdownOn(df) ==
    /\ data' = df
    /\ call' = Called("calculate_drawdown_metrics", <<>>,
                      drawdown_metrics(df))

CallDrawdown ==
    /\ call.op = "none"
    /\ \E n \in 0..MaxObs : \E index \in Calendars(n) :
          \E e \in EquityCurves(n) : DrawdownOn(EquityTable(index, e))
    /\ UNCHANGED <<ingestVars, strategies, lib, alt, libAlt, callAlt, again,
                   runVars>>

\* factor tables: absent, or dated rows with no column or the column MKT
FactorReturnVals == {NaN, RInt(0), <<1, 2>>}

FactorVals == {NaN, RInt(0), RInt(1)}

FactorReturnTables ==
    UNION {{RiskTable(DailyIndex(n), "strategy_returns" :> r) :
               r \in SeqsOfLen(FactorReturnVals, n)} : n \in 0..MaxFactorRows}

Ascending(S) ==
    CHOOSE s \in [1..Cardinality(S) -> S] :
        \A i, j \in 1..Cardinality(S) : i < j => s[i] < s[j]

FactorIndexes == {Ascending(S) : S \in SUBSET (1..MaxFactorRows)}

FactorTables ==
    {NoFactors}
    \cup {RiskTable(index, <<>>) : index \in FactorIndexes}
    \cup UNION {{RiskTable(index, "MKT" :> x) :
                    x \in SeqsOfLen(FactorVals, Len(index))} :
                index \in FactorIndexes}

NoLinalg == [svd_raises |-> FALSE]

\* the SVD is undefined on a matrix that holds a NaN: the regression is
\* reached and a located factor row is missing
ConsultsSvd(df, factor_returns) ==
    /\ factor_returns # NoFactors
    /\ Len(DropNa(df.cols["strategy_returns"])) >= 2
    /\ Len(CommonRows(df, factor_returns)) >= 2
    /\ "MKT" \in DOMAIN factor_returns.cols
    /\ HasNaN(LocFactor(df, factor_returns, "MKT",
                        CommonRows(df, factor_returns)))

LinalgFor(df, factor_returns) ==
    IF ConsultsSvd(df, factor_returns)
    THEN {[svd_raises |-> b] : b \in BOOLEAN} ELSE {NoLinalg}

\* RiskEngine(df).calculate_factor_exposures(factor_returns)
CallFactorExposures ==
    /\ call.op = "none"
    /\ \E df \in FactorReturnTables, f \in FactorTables :
          \E la \in LinalgFor(df, f) :
              /\ data' = df
              /\ lib' = la
              /\ call' = Called("calculate_factor_exposures", f,
                                factor_exposures(df, f, la))
    /\ UNCHANGED <<ingestVars, strategies, alt, libAlt, callAlt, again, runVars>>

NextRisk == CallTailRisk \/ CallDrawdown \/ CallFactorExposures

SpecRisk == InitRisk /\ [][NextRisk]_vars

\* ----------------------------------------------------- RealTimeDataIngestor
\* MaxThreads threads each run RealTimeDataIngestor(symbols).start(); thread
\* i passes the symbols SymbolsOf(i).  Objects are numbered in the order
\* they are allocated, a stream by the thread whose __init__ opened it.
Threads == 1..MaxThreads

SymbolsOf(i) == IF i = 1 THEN {"XOM"} ELSE {"SPY"}

None == 0

\* the object super().__new__(cls) returns: no attribute is set
NewObject ==
    [initialized |-> FALSE, symbols |-> {}, stream |-> None,
     latest_data |-> {}]

\* line 30: if cls._instance is None
NewCheck(i) ==
    /\ tpc[i] = "new"
    /\ tpc' = [tpc EXCEPT ![i] = IF instance = None THEN "alloc" ELSE "ret"]
    /\ UNCHANGED <<instance, objects, tself, loops, inputVars, calcVars,
                   runVars>>

\* line 31: cls._instance = super().__new__(cls)
NewAlloc(i) ==
    /\ tpc[i] = "alloc"
    /\ objects' = Append(objects, NewObject)
    /\ instance' = Len(objects) + 1
    /\ tpc' = [tpc EXCEPT ![i] = "ret"]
    /\ UNCHANGED <<tself, loops, inputVars, calcVars, runVars>>

\* line 32: return cls._instance
NewReturn(i) ==
    /\ tpc[i] = "ret"
    /\ tself' = [tself EXCEPT ![i] = instance]
    /\ tpc' = [tpc EXCEPT ![i] = "init"]
    /\ UNCHANGED <<instance, objects, loops, inputVars, calcVars, runVars>>

\* lines 35-36: an initialized object is left alone
InitCheck(i) ==
    /\ tpc[i] = "init"
    /\ tpc' = [tpc EXCEPT ![i] = IF objects[tself[i]].initialized
                                  THEN "start" ELSE "mark"]
    /\ UNCHANGED <<instance, objects, tself, loops, inputVars, calcVars,
                   runVars>>

\* line 37
InitMark(i) ==
    /\ tpc[i] = "mark"
    /\ objects' = [objects EXCEPT ![tself[i]].initialized = TRUE]
    /\ tpc' = [tpc EXCEPT ![i] = "symbols"]
    /\ UNCHANGED <<instance, tself, loops, inputVars, calcVars, runVars>>

\* line 41
InitSymbols(i) ==
    /\ tpc[i] = "symbols"
    /\ objects' = [objects EXCEPT ![tself[i]].symbols = SymbolsOf(i)]
    /\ tpc' = [tpc EXCEPT ![i] = "stream"]
    /\ UNCHANGED <<instance, tself, loops, inputVars, calcVars, runVars>>

\* line 42
InitStream(i) ==
    /\ tpc[i] = "stream"
    /\ objects' = [objects EXCEPT ![tself[i]].stream = i]
    /\ tpc' = [tpc EXCEPT ![i] = "latest"]
    /\ UNCHANGED <<instance, tself, loops, inputVars, calcVars, runVars>>

\* line 43
InitLatest(i) ==
    /\ tpc[i] = "latest"
    /\ objects' = [objects EXCEPT ![tself[i]].latest_data = {}]
    /\ tpc' = [tpc EXCEPT ![i] = "start"]
    /\ UNCHANGED <<instance, tself, loops, inputVars, calcVars, runVars>>

\* start(): a new event loop on a new daemon thread that will run
\* subscribe_bars of the object
Start(i) ==
    /\ tpc[i] = "start"
    /\ loops' = Append(loops, [self |-> tself[i], state |-> "spawned",
                               stream |-> None])
    /\ tpc' = [tpc EXCEPT ![i] = "done"]
    /\ UNCHANGED <<instance, objects, tself, inputVars, calcVars, runVars>>

\* subscribe_bars, lines 57-61: the loop thread subscribes on self.stream and
\* runs it; it dies with AttributeError when the attribute is not set yet
RunLoop(k) ==
    /\ loops[k].state = "spawned"
    /\ loops' = [loops EXCEPT
                    ![k].stream = objects[loops[k].self].stream,
                    ![k].state = IF objects[loops[k].self].stream = None
                                 THEN "failed" ELSE "running"]
    /\ UNCHANGED <<instance, objects, tpc, tself, inputVars, calcVars, runVars>>

\* on_minute_bar: a running connection delivers a bar of a symbol
OnMinuteBar(k) ==
    /\ loops[k].state = "running"
    /\ \E symbol \in {"XOM", "SPY"} :
          /\ symbol \notin objects[loops[k].self].latest_data
          /\ objects' = [objects EXCEPT ![loops[k].self].latest_data =
                                            @ \cup {symbol}]
    /\ UNCHANGED <<instance, tpc, tself, loops, inputVars, calcVars, runVars>>

InitIngestor ==
    /\ strategies = <<>>
    /\ data = EmptyFrame
    /\ lib = NoLib
    /\ CalcIdle
    /\ RunIdle
    /\ IngestIdle

NextIngestor ==
    \/ \E i \in Threads : NewCheck(i)
    \/ \E i \in Threads : NewAlloc(i)
    \/ \E i \in Threads : NewReturn(i)
    \/ \E i \in Threads : InitCheck(i)
    \/ \E i \in Threads : InitMark(i)
    \/ \E i \in Threads : InitSymbols(i)
    \/ \E i \in Threads : InitStream(i)
    \/ \E i \in Threads : InitLatest(i)
    \/ \E i \in Threads : Start(i)
    \/ \E k \in DOMAIN loops : RunLoop(k)
    \/ \E k \in DOMAIN loops : OnMinuteBar(k)

SpecIngestor == InitIngestor /\ [][NextIngestor]_vars

\* ================================================================== claims
Ended == pc \in {"returned", "raised", "analyzed"}

GeneratedOk == call.op = "generate_signals" /\ ~call.ret.raised

BacktestedOk == call.op = "backtest_strategy" /\ ~call.ret.raised

\* the stages of StatisticalArbitrage.generate_signals on a frame that
\* reaches them
StatArbCall ==
    /\ call.op = "generate_signals"
    /\ strategies[1].cls = "StatisticalArbitrageStrategy"

HedgeOf(s, df) ==
    calculate_hedge_ratio(s, df.cols["close"], df.cols["benchmark_close"])

SpreadOf(s, df) ==
    Spread(df.cols["close"], df.cols["benchmark_close"],
           HedgeOf(s, df).hedge_ratio, HedgeOf(s, df).intercept)

HalfLifeOf(s, df) == calculate_half_life(s, SpreadOf(s, df))

\* the call passed the cointegration gate and both regressions were fitted
ReachedHalfLife(s, df, l) ==
    /\ ConsultsLib(s, df)
    /\ l.adf_pass
    /\ ~HedgeOf(s, df).raised
    /\ ~HalfLifeOf(s, df).raised

ReachedZScore(s, df, l) ==
    /\ ReachedHalfLife(s, df, l)
    /\ ~HalfLifeRejected(s, HalfLifeOf(s, df).coef)

DerivedColumns ==
    {"Signal", "Returns", "Strategy_Returns", "Cumulative_Strategy",
     "Cumulative_Market"}

\* C1: in the table _backtest_strategy returns, the Signal column is the
\* series the strategy generated, and at every bar t >= 2 (bar 1 has no
\* predecessor) the strategy return equals the signal of bar t-1 times the
\* close-to-close return (close[t] - close[t-1]) / close[t-1] of bar t.
C1_StrategyReturnUsesPreviousSignal ==
    BacktestedOk =>
        LET df == call.ret.df
            close == call.arg.cols["close"]
            sr == df.cols["Strategy_Returns"]
            sig == generate_signals(strategies[1], call.arg, lib).signals
        IN  /\ df.cols["Signal"] = sig
            /\ \A t \in 2..df.len :
                  /\ ~IsNaN(sr[t])
                  /\ sr[t][1] * close[t - 1]
                         = sig[t - 1] * (close[t] - close[t - 1]) * sr[t][2]

\* a table where the signal changes between two bars and the later bar has
\* a non-zero strategy return
C1_Witness ==
    /\ BacktestedOk
    /\ \E t \in 2..call.ret.df.len :
          /\ call.ret.df.cols["Signal"][t] # call.ret.df.cols["Signal"][t - 1]
          /\ call.ret.df.cols["Strategy_Returns"][t][1] # 0

\* C2: two invocations of run_all on the same strategy list and price table
\* that both return normally return the same mapping.
C2_RunsAgree ==
    (inv = "second" /\ pc = "returned" /\ first.ended = "returned")
        => results = first.results

\* C3: when run_all returns normally the mapping holds one entry per
\* submitted strategy, each strategy's own table.
C3_MappingComplete ==
    pc = "returned" =>
        /\ Cardinality(DOMAIN results) = Len(strategies)
        /\ \A i \in Tasks : results[ResultKey(strategies[i])] = fres[i]

\* C4: when a task has raised, run_all does not end by raising: it returns a
\* mapping that holds the table of every strategy whose task succeeded.
C4_FailureIsolated ==
    (Ended /\ \E i \in Tasks : fut[i] = "failed") =>
        /\ pc # "raised"
        /\ \A i \in Tasks :
              fut[i] = "done" => ResultKey(strategies[i]) \in DOMAIN results

\* C5: run_all has handed control back (returned or raised) only in states
\* where every submitted task has finished.
C5_EndsAfterAllTasks ==
    Ended => \A i \in Tasks : fut[i] \in {"done", "failed"}

\* run_all raised while a task it never collected had to be waited for
C5_Witness ==
    /\ pc = "raised"
    /\ \E i \in Tasks : i \notin yielded /\ fut[i] = "done"

\* C6: no step of any task writes the shared price table, and every finished
\* task holds the derived columns in its own frame.
C6_InputNeverWritten ==
    [][/\ data' = data
       /\ \A i \in Tasks :
             fut'[i] = "done" => DerivedColumns \subseteq DOMAIN fres'[i].cols]_vars

\* a Momentum task finished: its frame has rolling_mean and the derived
\* columns, the shared table has neither
C6_Witness ==
    \E i \in Tasks :
        /\ fut[i] = "done"
        /\ HasCol(fres[i], "rolling_mean")
        /\ DOMAIN data.cols = {"close", "benchmark_close"}

\* C7: the tail-risk and drawdown methods of the risk engine return a report
\* for every table the engine produced.
C7_RiskEngineReadsResult ==
    \A i \in Tasks :
        fut[i] = "done" =>
            /\ calculate_tail_risk_metrics(fres[i]) = "report"
            /\ calculate_drawdown_metrics(fres[i]) = "report"

\* C8: a series returned by generate_signals has one value per row of the
\* input and every value is -1, 0 or +1.
C8_SignalShape ==
    GeneratedOk =>
        /\ DOMAIN call.ret.signals = 1..call.arg.len
        /\ \A t \in DOMAIN call.ret.signals : call.ret.signals[t] \in {-1, 0, 1}

\* the statistical-arbitrage strategy left through the half-life rejection
\* on a table of at least 3 bars
C8_Witness ==
    /\ GeneratedOk
    /\ StatArbCall
    /\ ReachedHalfLife(strategies[1], call.arg, lib)
    /\ HalfLifeRejected(strategies[1], HalfLifeOf(strategies[1], call.arg).coef)
    /\ Len(call.ret.signals) >= 3

\* C9: the series StatisticalArbitrage returns has no run of more than
\* max_position_hold consecutive bars with the same non-zero value.
C9_HoldCap ==
    (GeneratedOk /\ strategies[1].cls = "StatisticalArbitrageStrategy") =>
        LET sig == call.ret.signals
            hold == strategies[1].max_position_hold
        IN  \A t \in DOMAIN sig :
                (sig[t] # 0 /\ t + hold <= Len(sig)) =>
                    \E k \in 1..hold : sig[t + k] # sig[t]

\* the cap acted: a bar whose z-score is beyond the entry threshold was
\* forced flat
C9_Witness ==
    /\ GeneratedOk
    /\ StatArbCall
    /\ ReachedZScore(strategies[1], call.arg, lib)
    /\ \E t \in DOMAIN call.ret.signals :
          /\ call.ret.signals[t] = 0
          /\ ThresholdSignals(strategies[1],
                 calculate_zscore(strategies[1],
                                  SpreadOf(strategies[1], call.arg)))[t] # 0

BothGenerated ==
    /\ GeneratedOk
    /\ callAlt.op = "generate_signals"
    /\ ~callAlt.ret.raised

AgreeUpTo(d, a, t) ==
    /\ t <= d.len /\ t <= a.len
    /\ \A i \in 1..t : d.cols["close"][i] = a.cols["close"][i]

\* C10: Momentum and MeanReversion give the same signal at bar t on two
\* price tables that agree on every row up to and including t.
C10_Causal ==
    BothGenerated =>
        \A t \in 1..call.arg.len :
            AgreeUpTo(call.arg, callAlt.arg, t) =>
                call.ret.signals[t] = callAlt.ret.signals[t]

\* two tables that agree on their first two rows and differ later, with
\* signals that differ at a later bar
C10_Witness ==
    /\ BothGenerated
    /\ AgreeUpTo(call.arg, callAlt.arg, 2)
    /\ call.arg.len = callAlt.arg.len
    /\ \E t \in 3..call.arg.len :
          /\ call.arg.cols["close"][t] # callAlt.arg.cols["close"][t]
          /\ call.ret.signals[t] # callAlt.ret.signals[t]

PairAgreeUpTo(d, a, t) ==
    /\ t <= d.len /\ t <= a.len
    /\ DOMAIN d.cols = DOMAIN a.cols
    /\ \A c \in DOMAIN d.cols : \A i \in 1..t : d.cols[c][i] = a.cols[c][i]

\* C11: on two price tables that agree on every row up to and including t,
\* and that both pass the cointegration gate, StatisticalArbitrage gives the
\* same signal at bar t.
C11_StatArbCausal ==
    (BothGenerated /\ StatArbCall /\ lib.adf_pass /\ libAlt.adf_pass) =>
        \A t \in 1..call.arg.len :
            PairAgreeUpTo(call.arg, callAlt.arg, t) =>
                call.ret.signals[t] = callAlt.ret.signals[t]

C13_InputUntouched ==
    GeneratedOk => call.ret.df = call.arg

\* C14: on a table with fewer rows than the strategy's lookback (window for
\* Momentum and MeanReversion, lookback_period for StatisticalArbitrage)
\* generate_signals does not raise and returns a zero at every bar.
Lookback(strategy) ==
    IF strategy.cls = "StatisticalArbitrageStrategy"
    THEN strategy.lookback_period ELSE strategy.window

C14_ShortInputFlat ==
    (call.op = "generate_signals" /\ call.arg.len < Lookback(strategies[1])) =>
        /\ ~call.ret.raised
        /\ call.ret.signals = FlatSeries(call.arg)

\* C15: in the table _backtest_strategy returns, the first bar whose
\* Cumulative_Strategy is defined holds initial_capital.
FirstValid(series, t) ==
    /\ ~IsNaN(series[t])
    /\ \A u \in 1..(t - 1) : IsNaN(series[u])

C15_EquityStartsAtCapital ==
    BacktestedOk =>
        \A t \in Rows(call.ret.df) :
            FirstValid(call.ret.df.cols["Cumulative_Strategy"], t) =>
                call.ret.df.cols["Cumulative_Strategy"][t] = RInt(initial_capital)

MomentumCall == GeneratedOk /\ strategies[1].cls = "MomentumStrategy"

\* close is strictly above the mean of the w bars that end at t
AboveTrailingMean(close, t, w) ==
    /\ t >= w
    /\ close[t] * w > SumRange(close, t - w + 1, t)

MomentumRule ==
    MomentumCall =>
        \A t \in Rows(call.arg) :
            call.ret.signals[t] =
                IF AboveTrailingMean(call.arg.cols["close"], t,
                                     strategies[1].window)
                THEN 1 ELSE -1

ConstantClose(close) == \A t \in DOMAIN close : close[t] = close[1]

\* at least two bars, each above the one before
IncreasingClose(close) ==
    /\ Len(close) >= 2
    /\ \A t \in DOMAIN close : t > 1 => close[t] > close[t - 1]

MomentumOnConstant ==
    (MomentumCall /\ ConstantClose(call.arg.cols["close"])) =>
        \A t \in Rows(call.arg) : call.ret.signals[t] = -1

\* +1 at every bar from the one that fills the window on, for the windows
\* of at least minWindow bars
MomentumOnIncreasing(minWindow) ==
    (/\ MomentumCall
     /\ IncreasingClose(call.arg.cols["close"])
     /\ strategies[1].window >= minWindow) =>
        \A t \in Rows(call.arg) :
            t >= strategies[1].window => call.ret.signals[t] = 1

\* C16 as stated: Momentum returns +1 exactly where the trailing mean is
\* defined and close is strictly above it and -1 elsewhere; a constant close
\* gives -1 at every bar; a strictly increasing close gives +1 at every bar
\* once the window is full.
C16_MomentumRule ==
    MomentumRule /\ MomentumOnConstant /\ MomentumOnIncreasing(1)

\* C16, amended: the same, the strictly increasing close giving +1 at every
\* bar once the window is full for the windows of two bars or more (a mean
\* over one bar is the close itself, which is never strictly above it).
C16_MomentumRuleTwoBars ==
    MomentumRule /\ MomentumOnConstant /\ MomentumOnIncreasing(2)

\* a strictly increasing close under a window of two bars: -1 at the bar
\* before the window is full, +1 from the bar that fills it on
C16_Witness ==
    /\ MomentumCall
    /\ strategies[1].window = 2
    /\ call.arg.len = 4
    /\ IncreasingClose(call.arg.cols["close"])
    /\ call.ret.signals = <<-1, 1, 1, 1>>

MeanReversionCall ==
    GeneratedOk /\ strategies[1].cls = "MeanReversionStrategy"

\* close < mean * (1 - threshold) and close > mean * (1 + threshold), mean
\* being the sum of the w bars that end at t over w and threshold p/q
BelowBand(close, t, w, th) ==
    /\ t >= w
    /\ close[t] * w * th[2] < SumRange(close, t - w + 1, t) * (th[2] - th[1])

AboveBand(close, t, w, th) ==
    /\ t >= w
    /\ close[t] * w * th[2] > SumRange(close, t - w + 1, t) * (th[2] + th[1])

\* C17: MeanReversion returns +1 at exactly the bars where close is below
\* mean*(1-threshold), -1 at exactly the bars where it is above
\* mean*(1+threshold) and 0 at every other bar, the bars without a trailing
\* mean included.
C17_MeanReversionRule ==
    MeanReversionCall =>
        \A t \in Rows(call.arg) :
            call.ret.signals[t] =
                IF BelowBand(call.arg.cols["close"], t, strategies[1].window,
                             strategies[1].threshold) THEN 1
                ELSE IF AboveBand(call.arg.cols["close"], t,
                                  strategies[1].window, strategies[1].threshold)
                     THEN -1
                ELSE 0

\* one call that gives 0 before the window is full, then a short, a long
\* and a 0 inside the band
C17_Witness ==
    /\ MeanReversionCall
    /\ strategies[1].window = 2
    /\ call.ret.signals = <<0, -1, 1, 0>>

ValidPairs(df) ==
    Cardinality(ValidRows(df.cols["close"], df.cols["benchmark_close"]))

\* a rejection condition of StatisticalArbitrage holds for the call
Rejected(s, df, l) ==
    \/ ~HasCol(df, "benchmark_close")
    \/ ValidPairs(df) < s.lookback_period
    \/ ~l.adf_pass
    \/ /\ ReachedHalfLife(s, df, l)
       /\ HalfLifeRejected(s, HalfLifeOf(s, df).coef)

\* C18: when benchmark_close is absent, fewer than lookback_period rows have
\* both prices, the ADF test does not pass, or the half-life is infinite or
\* below min_half_life, StatisticalArbitrage.generate_signals does not raise
\* and returns a zero at every bar.
C18_RejectionIsFlat ==
    (StatArbCall /\ Rejected(strategies[1], call.arg, lib)) =>
        /\ ~call.ret.raised
        /\ call.ret.signals = FlatSeries(call.arg)

\* a table with lookback_period rows or more of which fewer have both
\* prices: the length test passes, the count of valid pairs rejects
C18_Witness ==
    /\ GeneratedOk
    /\ StatArbCall
    /\ HasCol(call.arg, "benchmark_close")
    /\ call.arg.len >= strategies[1].lookback_period
    /\ ValidPairs(call.arg) < strategies[1].lookback_period
    /\ call.ret.signals = FlatSeries(call.arg)

\* C19: StatisticalArbitrage.generate_signals raises on no table whose
\* prices are finite or missing: a regression that cannot be fitted gives
\* the flat series.
C19_NoFitFailureEscapes ==
    StatArbCall => ~call.ret.raised

\* C20: a strategy whose constructor returned raises no configuration error
\* in generate_signals (on the complete tables of this specification a call
\* raises only through a window that rolling() rejects).
C20_NoLateConfigError ==
    (call.op = "generate_signals" /\ ~ConstructorRaises(strategies[1])) =>
        ~(call.ret.raised /\ RollingRaises(Lookback(strategies[1])))

\* ------------------------------------------------------- risk engine calls
DrawdownCall == call.op = "calculate_drawdown_metrics"

TailCall == call.op = "calculate_tail_risk_metrics"

FactorCall == call.op = "calculate_factor_exposures"

EquityCurve == data.cols["cumulative_strategy"]

\* the strategy returns that are not missing
Sample == DropNa(data.cols["strategy_returns"])

\* C21: for an equity curve of two observations or more no value of the
\* drawdown series (equity - running maximum) / running maximum is above 0,
\* and the reported max_drawdown is the minimum of that series.
C21_DrawdownNeverPositive ==
    (DrawdownCall /\ Len(EquityCurve) >= 2) =>
        /\ \A t \in DOMAIN EquityCurve :
               ~RGt(DrawdownAt(EquityCurve[t], MaxUpTo(EquityCurve, t)),
                    RInt(0))
        /\ call.ret.max_drawdown = SeriesMin(Drawdowns(EquityCurve))

\* the order statistics of a sample, without sorting it: the k-th smallest
\* value (k from 0) is the one with at most k values below it and more than k
\* values below or equal to it
CountBelow(sample, v) ==
    Cardinality({t \in DOMAIN sample : RLt(sample[t], v)})

CountNotAbove(sample, v) ==
    Cardinality({t \in DOMAIN sample : ~RGt(sample[t], v)})

OrderStatistic(sample, k) ==
    CHOOSE v \in {sample[t] : t \in DOMAIN sample} :
        CountBelow(sample, v) <= k /\ k < CountNotAbove(sample, v)

\* the q-quantile by linear interpolation between the two order statistics
\* around position (n - 1) * q
QuantileAt(sample, lo, frac) ==
    IF frac[1] = 0 THEN OrderStatistic(sample, lo)
    ELSE RAdd(RMul(RSub(RInt(1), frac), OrderStatistic(sample, lo)),
              RMul(frac, OrderStatistic(sample, lo + 1)))

Quantile(sample, q) ==
    QuantileAt(sample, RFloor(RMul(RInt(Len(sample) - 1), q)),
               RSub(RMul(RInt(Len(sample) - 1), q),
                    RInt(RFloor(RMul(RInt(Len(sample) - 1), q)))))

NotAbove(sample, v) == SelectSeq(sample, LAMBDA r : ~RGt(r, v))

MeanOf(xs) == RDiv(RSum(xs, Len(xs)), RInt(Len(xs)))

\* C22: for a sample of two returns or more, historical_var is the
\* (1 - confidence) quantile of the sample, conditional_var is the mean of
\* the returns that are not above historical_var (historical_var itself when
\* there is none), and conditional_var is not above historical_var.
C22_ConditionalVarIsTailMean ==
    (TailCall /\ Len(Sample) >= 2) =>
        /\ call.ret.historical_var = Quantile(Sample, RSub(RInt(1), call.arg))
        /\ call.ret.conditional_var =
               IF NotAbove(Sample, call.ret.historical_var) = <<>>
               THEN call.ret.historical_var
               ELSE MeanOf(NotAbove(Sample, call.ret.historical_var))
        /\ ~RGt(call.ret.conditional_var, call.ret.historical_var)

\* returns 0.01, -0.02, 0.015, -0.03, 0.005 at 95 %: the 5th percentile is
\* -0.028 and the mean of the returns at or below it is -0.03
C22_Witness ==
    /\ TailCall
    /\ Sample = ScenarioC
    /\ call.arg = <<19, 20>>
    /\ call.ret.historical_var = <<-7, 250>>
    /\ call.ret.conditional_var = <<-3, 100>>

AllZero(report, names) ==
    /\ DOMAIN report = names
    /\ \A k \in names : report[k] = RInt(0)

\* C23: the tail-risk method returns its four metrics as 0 when fewer than
\* two strategy returns are left after the missing ones are dropped, and the
\* drawdown method returns its four metrics as 0 when the equity curve has
\* fewer than two observations.
C23_ShortInputNeutralReport ==
    /\ (TailCall /\ Len(Sample) < 2) =>
           AllZero(call.ret, {"historical_var", "parametric_var",
                              "conditional_var", "evt_var"})
    /\ (DrawdownCall /\ Len(EquityCurve) < 2) =>
           AllZero(call.ret, {"max_drawdown", "average_drawdown",
                              "average_recovery_time", "drawdown_frequency"})

\* a table of two rows or more of which one return is left after dropna
C23_Witness ==
    /\ TailCall
    /\ data.len >= 2
    /\ Len(Sample) = 1
    /\ AllZero(call.ret, {"historical_var", "parametric_var",
                          "conditional_var", "evt_var"})

NegativeCount(sample) ==
    Cardinality({t \in DOMAIN sample : RLt(sample[t], RInt(0))})

AllEqual(sample) == \A i, j \in DOMAIN sample : sample[i] = sample[j]

\* C25: parametric_var is historical_var when the standard deviation of the
\* sample is zero or the normal quantile is undefined, and the normal
\* quantile otherwise; evt_var is historical_var when at most 10 returns are
\* strictly negative or the generalized-Pareto fit raises, and the negated
\* quantile of the fitted distribution otherwise.
C25_FallbacksExact ==
    (TailCall /\ Len(Sample) >= 2) =>
        /\ call.ret.parametric_var =
               IF AllEqual(Sample) \/ IsNaN(lib.norm_ppf)
               THEN call.ret.historical_var ELSE lib.norm_ppf
        /\ call.ret.evt_var =
               IF NegativeCount(Sample) <= 10 \/ lib.fit_raises
               THEN call.ret.historical_var ELSE RNeg(lib.genpareto_ppf)

\* eleven losses and a fit that succeeded: evt_var is the fitted quantile and
\* parametric_var the normal quantile, neither equal to historical_var
C25_Witness ==
    /\ TailCall
    /\ NegativeCount(Sample) = 11
    /\ ~lib.fit_raises
    /\ call.ret.evt_var = RNeg(lib.genpareto_ppf)
    /\ call.ret.evt_var # call.ret.historical_var
    /\ call.ret.parametric_var = lib.norm_ppf
    /\ call.ret.parametric_var # call.ret.historical_var

FactorTable == call.arg

\* the dates that carry a strategy return and a row of the factor table
CommonDates ==
    {data.index[t] : t \in {u \in DOMAIN data.index :
                               ~IsNaN(data.cols["strategy_returns"][u])}}
    \cap {FactorTable.index[t] : t \in DOMAIN FactorTable.index}

ThresholdCall == call.op = "thresholds"

\* the rule on a z-score held as its signed square, for positive thresholds:
\* |z| < exit is |z*|z|| < exit*exit, z > entry is z*|z| > entry*entry
RAbs(r) == IF r[1] < 0 THEN RNeg(r) ELSE r

ThresholdRule(self, zsq) ==
    IF RLt(RAbs(zsq), RMul(self.exit_zscore, self.exit_zscore)) THEN 0
    ELSE IF RGt(zsq, RMul(self.entry_zscore, self.entry_zscore)) THEN -1
    ELSE IF RLt(zsq, RNeg(RMul(self.entry_zscore, self.entry_zscore))) THEN 1
    ELSE 0

\* the bars of the rolling window that ends at bar t
WindowBars(t, lookback) == {u \in 1..t : u > t - lookback}

\* the rolling standard deviation at bar t is undefined (fewer than two
\* bars, or fewer than lookback_period // 2) or zero (equal values)
StdZeroOrUndefined(spread, t, lookback) ==
    \/ Cardinality(WindowBars(t, lookback)) < 2
    \/ Cardinality(WindowBars(t, lookback)) < lookback \div 2
    \/ \A u, v \in WindowBars(t, lookback) : spread[u] = spread[v]

CrossesEntry(self, zsq) ==
    \/ RGt(zsq, RMul(self.entry_zscore, self.entry_zscore))
    \/ RLt(zsq, RNeg(RMul(self.entry_zscore, self.entry_zscore)))

\* C26: before the hold cap the signal of a bar is a function of the z-score
\* of that bar alone: 0 when |z| < exit_zscore, otherwise -1 when
\* z > entry_zscore, +1 when z < -entry_zscore and 0 in between; and at a bar
\* where the rolling standard deviation is zero or undefined the z-score is
\* 0 and the signal is 0.
C26_ThresholdRule ==
    ThresholdCall =>
        \A t \in DOMAIN call.arg :
            /\ call.ret.signals[t] =
                   ThresholdRule(strategies[1], call.ret.zscore[t])
            /\ StdZeroOrUndefined(call.arg, t,
                                  strategies[1].lookback_period) =>
                   /\ call.ret.zscore[t] = RInt(0)
                   /\ call.ret.signals[t] = 0

\* one call with a bar beyond the entry threshold and inside the exit band
\* (flat), a bar with a position, and a bar that ends a constant window
C26_Witness ==
    /\ ThresholdCall
    /\ \E t \in DOMAIN call.arg :
           /\ CrossesEntry(strategies[1], call.ret.zscore[t])
           /\ call.ret.signals[t] = 0
    /\ \E t \in DOMAIN call.arg : call.ret.signals[t] # 0
    /\ \E t \in DOMAIN call.arg :
           /\ t >= 2
           /\ StdZeroOrUndefined(call.arg, t, strategies[1].lookback_period)
           /\ call.ret.signals[t] = 0

HoldCall == call.op = "enforce_max_hold"

\* raw changes value at bar i (the bar before the first one counts as 0)
Changes(raw, i) == raw[i] # (IF i = 1 THEN 0 ELSE raw[i - 1])

ChangesUpTo(raw, i) == {j \in 1..i : Changes(raw, j)}

Greatest(S) == CHOOSE j \in S : \A k \in S : k <= j

CapRule(raw, hold, i) ==
    IF /\ ChangesUpTo(raw, i) # {}
       /\ ~Changes(raw, i)
       /\ i - Greatest(ChangesUpTo(raw, i)) >= hold
    THEN 0 ELSE raw[i]

\* C27: the hold-cap scan gives, at bar i, 0 when raw has changed at or
\* before i, does not change at i, and the last change is max_position_hold
\* bars or more back, and raw[i] otherwise.  Hence it only replaces values by
\* 0, leaves every bar where raw changes as it is, and after a bar it forced
\* flat gives 0 until raw next changes.
C27_HoldCapScan ==
    HoldCall =>
        /\ DOMAIN call.ret = DOMAIN call.arg
        /\ \A i \in DOMAIN call.arg :
               /\ call.ret[i] =
                      CapRule(call.arg, strategies[1].max_position_hold, i)
               /\ call.ret[i] \in {0, call.arg[i]}
               /\ Changes(call.arg, i) => call.ret[i] = call.arg[i]
               /\ \A k \in DOMAIN call.arg :
                      (/\ i < k
                       /\ call.arg[i] # 0
                       /\ call.ret[i] = 0
                       /\ \A j \in (i + 1)..k : ~Changes(call.arg, j)) =>
                          call.ret[k] = 0

\* a position held past the cap is forced flat for two bars, and the next
\* change of raw is taken
C27_Witness ==
    /\ HoldCall
    /\ \E i \in DOMAIN call.arg :
           /\ i + 2 \in DOMAIN call.arg
           /\ call.arg[i] # 0 /\ call.ret[i] = 0
           /\ call.arg[i + 1] # 0 /\ call.ret[i + 1] = 0
           /\ call.ret[i + 2] # 0

\* the rows at which a curve is in drawdown
UnderFlags(curve) ==
    [t \in DOMAIN curve |->
        RLt(DrawdownAt(curve[t], MaxUpTo(curve, t)), RInt(0))]

\* the rows where the curve goes into and comes out of drawdown
InsOf(under) == {t \in 2..Len(under) : under[t] /\ ~under[t - 1]}

OutsOf(under) == {t \in 2..Len(under) : ~under[t] /\ under[t - 1]}

\* a transition in paired with the next transition out
EpisodesOf(ins, outs) ==
    {e \in ins \X outs :
        /\ e[1] < e[2]
        /\ \A k \in outs : ~(e[1] < k /\ k < e[2])}

EpisodeDays(e) == data.index[e[2]] - data.index[e[1]]

RECURSIVE TotalDays(_)
TotalDays(S) ==
    IF S = {} THEN 0
    ELSE EpisodeDays(CHOOSE e \in S : TRUE)
         + TotalDays(S \ {CHOOSE e \in S : TRUE})

\* one recorded time per transition out, in order, each the days of its
\* episode; no two episodes overlap; frequency and mean as reported
RecoveryRule(episodes, outs, recorded, report, n) ==
    /\ Len(recorded) = Cardinality(outs)
    /\ Cardinality(episodes) = Cardinality(outs)
    /\ \A e \in episodes :
           recorded[Cardinality({k \in outs : k < e[2]}) + 1] = EpisodeDays(e)
    /\ \A e, f \in episodes : e[1] < f[1] => e[2] < f[1]
    /\ report.drawdown_frequency = Rat(Cardinality(episodes), n)
    /\ report.average_recovery_time =
           IF episodes = {} THEN RInt(0)
           ELSE Rat(TotalDays(episodes), Cardinality(episodes))

RecoveryRuleOn(ins, outs, recorded, report, n) ==
    RecoveryRule(EpisodesOf(ins, outs), outs, recorded, report, n)

RecoveryRuleFrom(under, recorded, report, n) ==
    RecoveryRuleOn(InsOf(under), OutsOf(under), recorded, report, n)

\* C28: the drawdown scan records one episode per transition out of
\* drawdown, in order, each the days from the latest transition in to that
\* transition out; episodes do not overlap and a drawdown open at the last
\* observation records none.  drawdown_frequency is the number of episodes
\* over the number of observations, average_recovery_time the mean length
\* of the episodes in days, or 0 without an episode.
C28_RecoveryEpisodes ==
    (DrawdownCall /\ Len(EquityCurve) >= 2) =>
        RecoveryRuleFrom(UnderFlags(EquityCurve),
                         RecoveryTimes(Drawdowns(EquityCurve), data.index),
                         call.ret, Len(EquityCurve))

TransitionsIn == InsOf(UnderFlags(EquityCurve))

Episodes == EpisodesOf(TransitionsIn, OutsOf(UnderFlags(EquityCurve)))

\* an episode across the gap of the calendar, longer in days than in rows,
\* followed by a drawdown that is open at the last observation
C28_Witness ==
    /\ DrawdownCall
    /\ Cardinality(Episodes) = 1
    /\ Cardinality(TransitionsIn) = 2
    /\ UnderFlags(EquityCurve)[Len(EquityCurve)]
    /\ \E e \in Episodes : EpisodeDays(e) > e[2] - e[1]
    /\ call.ret.drawdown_frequency = Rat(1, Len(EquityCurve))
    /\ RGt(call.ret.average_recovery_time, RInt(2))

\* --------------------------------------------------- RealTimeDataIngestor
\* one object, and every constructor call that returned has returned it
SingleInstance ==
    /\ Len(objects) <= 1
    /\ \A i \in Threads : tself[i] \in {None, 1}

SingleConnection == Len(loops) <= 1

\* no step replaces the symbols or the stream of an object that has them,
\* or drops a bar from its latest_data
AttributesKept ==
    \A o \in DOMAIN objects :
        /\ objects[o].stream # None => objects'[o].stream = objects[o].stream
        /\ objects[o].symbols # {} => objects'[o].symbols = objects[o].symbols
        /\ objects[o].latest_data \subseteq objects'[o].latest_data

\* C29: however the threads that construct and start the ingestor
\* interleave, one ingestor object exists and every constructor call returns
\* it, no later construction replaces its symbols, stream or latest_data,
\* and at most one connection loop is opened.
C29_SingleInstanceSingleConnection ==
    /\ [](SingleInstance /\ SingleConnection)
    /\ [][AttributesKept]_vars

\* ------------------------------------------------- hedge-ratio estimation
\* the call reached calculate_hedge_ratio on n paired observations
HedgeCall ==
    /\ StatArbCall
    /\ ConsultsLib(strategies[1], call.arg)
    /\ lib.adf_pass
    /\ ValidPairs(call.arg) = call.arg.len

HedgeWindow == Min(strategies[1].lookback_period, call.arg.len - 1)

\* the w rows [k, k + w) of a column, rows counted from 0
RowsFrom(column, k, w) == [j \in 1..w |-> Cell(column[k + j])]

\* the regression of close on benchmark_close over the rows [k, k + w)
WindowFit(k) ==
    LinearRegression_fit(
        RowsFrom(call.arg.cols["benchmark_close"], k, HedgeWindow),
        RowsFrom(call.arg.cols["close"], k, HedgeWindow))

WindowSlopes ==
    [k \in 1..(call.arg.len - HedgeWindow) |-> WindowFit(k - 1).coef]

\* the median by rank: the middle order statistic, or the mean of the two
MedianByRank(xs) ==
    IF Len(xs) % 2 = 1 THEN OrderStatistic(xs, (Len(xs) - 1) \div 2)
    ELSE RDiv(RAdd(OrderStatistic(xs, Len(xs) \div 2 - 1),
                   OrderStatistic(xs, Len(xs) \div 2)), RInt(2))

EstimationRuns ==
    /\ HedgeWindow >= 1
    /\ call.arg.len - HedgeWindow >= 1
    /\ ~HedgeOf(strategies[1], call.arg).raised
    /\ HedgeOf(strategies[1], call.arg).hedge_ratio =
           MedianByRank(WindowSlopes)

\* C30 as stated: on n paired observations, with w = min(lookback_period,
\* n - 1), n - w regressions are run, the k-th over the rows [k, k + w); the
\* hedge ratio is the median of their slopes, and the intercept is that of
\* the regression over the most recent trailing window, the last w rows
\* [n - w, n) of the series.
C30_LastWindowIsTrailing ==
    HedgeCall =>
        /\ EstimationRuns
        /\ HedgeOf(strategies[1], call.arg).intercept =
               WindowFit(call.arg.len - HedgeWindow).intercept

\* C30, amended: the same, the intercept being that of the last regression
\* run, over the rows [n - w - 1, n - 1): its window ends one row before the
\* last observation, which enters no regression.
C30_LastWindowStopsShort ==
    HedgeCall =>
        /\ EstimationRuns
        /\ HedgeOf(strategies[1], call.arg).intercept =
               WindowFit(call.arg.len - HedgeWindow - 1).intercept

\* two regressions with different slopes, and an intercept that is not the
\* one of the last w rows
C30_Witness ==
    /\ HedgeCall
    /\ GeneratedOk
    /\ call.arg.len - HedgeWindow = 2
    /\ WindowSlopes[1] # WindowSlopes[2]
    /\ HedgeOf(strategies[1], call.arg).intercept #
           WindowFit(call.arg.len - HedgeWindow).intercept
====
